---- MODULE Spec2Model ----
(***************************************************************************)
(* Authentication core of section-builder: the login state machine with    *)
(* its lockout counters (routes/auth_routes.py), the transaction scope of  *)
(* database.get_cursor, and the session-token codec (auth.py).             *)
(*                                                                         *)
(* Time is counted in minutes.  The account store is the committed         *)
(* content of sys_user / sys_user_role; every request runs in its own      *)
(* transaction, whose writes stay pending until get_cursor commits them    *)
(* or rolls them back.                                                     *)
(***************************************************************************)
EXTENDS Integers, Sequences, FiniteSets, TLC

(***************************************************************************)
(* Bounds of the model.                                                    *)
(***************************************************************************)
MaxPolicyAttempts == 2
MaxTicks == 1
MaxTokenTicks == 2
MaxRequests == 3
MaxTtl == 2

(***************************************************************************)
(* Values.                                                                 *)
(***************************************************************************)
NULL == 0 - 1
DayMinutes == 24 * 60
Procs == {"p1", "p2"}
KnownUser == "u1"
UserIds == {KnownUser, "nobody"}
Passwords == {"pw1", "pw2"}
RoleLists == {<<>>, <<"USER">>, <<"ADMIN", "USER">>}
InitialPassword == "pw1"
InitialRoles == <<"ADMIN", "USER">>

PASSWORD_SALT == "section-builder-salt-2026"
JWT_SECRET_KEY == "jwt-secret"
JWT_ALGORITHM == "HS256"
JWT_EXPIRE_MINUTES == 60 * 8

VARIABLES now, ticks, policy, db, userRoles, req, db0,
          nDone, last, streak, announced, issued, decoded,
          jar, held, guard, pwHistory, lastOp, chg, csrf, verified,
          csrfLast, hashCheck, strength

vars == <<now, ticks, policy, db, userRoles, req, db0, nDone, last, streak,
          announced, issued, decoded, jar, held, guard, pwHistory, lastOp,
          chg, csrf, verified, csrfLast, hashCheck, strength>>
histVars == <<nDone, last, streak, announced>>
tokenVars == <<issued, decoded>>
sessionVars == <<jar, held, guard>>
storeVars == <<pwHistory, lastOp, chg>>
csrfVars == <<csrf, verified, csrfLast>>
pureVars == <<hashCheck, strength>>
auxVars == <<sessionVars, storeVars, csrfVars, pureVars>>

(***************************************************************************)
(* auth.py: password hashing.  The digest is a function of the salted      *)
(* string; sha512 is taken to be collision free.                           *)
(***************************************************************************)
\* hashlib.sha512(...).hexdigest(), taken to be collision free.
sha512(salted) == [sha512 |-> salted]

\* The password left out of the salted string.
hash_password_salt_only(password) ==
    sha512(PASSWORD_SALT \o PASSWORD_SALT)

\* f"{PASSWORD_SALT}{password}{PASSWORD_SALT}"
hash_password(password) ==
    sha512(PASSWORD_SALT \o password \o PASSWORD_SALT)

verify_password(password, hashed) == hash_password(password) = hashed

(***************************************************************************)
(* auth.py: session tokens.  A token is its claims and an HS256 signature  *)
(* over them.  expires_delta is <<>> for None and <<d>> for a timedelta of *)
(* d minutes; a zero timedelta is falsy in Python.                         *)
(***************************************************************************)
Sign(key, claims) == [alg |-> JWT_ALGORITHM, key |-> key, over |-> claims]

jwt_encode(claims, key) == [claims |-> claims, sig |-> Sign(key, claims)]

Truthy(expires_delta) == expires_delta # <<>> /\ expires_delta[1] # 0

create_access_token(user_id, roles, expires_delta, t) ==
    LET expire == IF Truthy(expires_delta) THEN t + expires_delta[1]
                  ELSE t + JWT_EXPIRE_MINUTES
    IN  jwt_encode([sub |-> user_id, roles |-> roles, exp |-> expire,
                    iat |-> t], JWT_SECRET_KEY)

\* <<>> is None, <<payload>> is the decoded payload.
decode_access_token(token, t) ==
    IF token.sig # Sign(JWT_SECRET_KEY, token.claims) THEN <<>>
    ELSE IF token.claims.exp < t THEN <<>>
    ELSE <<token.claims>>

(***************************************************************************)
(* routes/auth_routes.py: the password policy read by login.               *)
(***************************************************************************)
LockoutChoices == {1, 2}

\* The policy get_password_policy returns when the table has no active row.
DefaultPolicy ==
    [min_length |-> 8, require_uppercase |-> TRUE,
     require_lowercase |-> TRUE, require_number |-> TRUE,
     require_special |-> FALSE, max_login_attempts |-> 5,
     lockout_duration_min |-> 30, password_expire_days |-> 90,
     password_history_count |-> 3]

Policies ==
    { [DefaultPolicy EXCEPT !.max_login_attempts = m,
                            !.lockout_duration_min = l] :
        m \in 1..MaxPolicyAttempts, l \in LockoutChoices }

get_password_policy == policy

(***************************************************************************)
(* Rows of sys_user as login reads them.                                   *)
(***************************************************************************)
Date(t) == t \div DayMinutes

NoRow == [password_hash |-> hash_password(""), is_active |-> FALSE,
          expire_date |-> NULL, login_fail_count |-> 0,
          locked_until |-> NULL, last_login_at |-> NULL,
          password_changed_at |-> NULL, updated_at |-> NULL]

\* The rows the store may hold when the service starts: locked_until is
\* set exactly on the rows whose failure count has reached the policy's limit.
InitRows(pol, t0) ==
    { r \in [password_hash : {hash_password(InitialPassword)},
             is_active : BOOLEAN,
             expire_date : {NULL, Date(t0) - 1},
             login_fail_count : 0..pol.max_login_attempts,
             locked_until : {NULL, t0 + 1},
             last_login_at : {NULL},
             password_changed_at : {NULL},
             updated_at : {NULL}] :
        (r.locked_until # NULL) <=>
            (r.login_fail_count >= pol.max_login_attempts) }

(***************************************************************************)
(* login, lines 154-174: the account state, first match wins.              *)
(***************************************************************************)
\* The expiry check moved in front of the is_active check.
AccountStateExpiredFirst(found, user, t) ==
    IF ~found THEN "unknown"
    ELSE IF user.expire_date # NULL /\ user.expire_date < Date(t)
         THEN "expired"
    ELSE IF ~user.is_active THEN "disabled"
    ELSE IF user.locked_until # NULL /\ user.locked_until > t THEN "locked"
    ELSE "active"

\* The state checks without the expiry check.
AccountStateIgnoresExpiry(found, user, t) ==
    IF ~found THEN "unknown"
    ELSE IF ~user.is_active THEN "disabled"
    ELSE IF user.locked_until # NULL /\ user.locked_until > t THEN "locked"
    ELSE "active"

\* The state checks without the lockout check.
AccountStateIgnoresLock(found, user, t) ==
    IF ~found THEN "unknown"
    ELSE IF ~user.is_active THEN "disabled"
    ELSE IF user.expire_date # NULL /\ user.expire_date < Date(t)
         THEN "expired"
    ELSE "active"

AccountState(found, user, t) ==
    IF ~found THEN "unknown"
    ELSE IF ~user.is_active THEN "disabled"
    ELSE IF user.expire_date # NULL /\ user.expire_date < Date(t)
         THEN "expired"
    ELSE IF user.locked_until # NULL /\ user.locked_until > t THEN "locked"
    ELSE "active"

\* (locked_until - now).seconds // 60: the seconds field of a timedelta
\* leaves the days out.
LockedRemaining(user, t) == (user.locked_until - t) % DayMinutes

(***************************************************************************)
(* Responses.  cookie is <<>> or <<token>>.                                *)
(***************************************************************************)
Http(status, kind, remaining, cookie) ==
    [status |-> status, kind |-> kind, remaining |-> remaining,
     cookie |-> cookie]

Http500 == Http(500, "error", NULL, <<>>)

Rejection(state, user, t) ==
    IF state = "locked" THEN Http(401, "locked", LockedRemaining(user, t), <<>>)
    ELSE Http(401, state, NULL, <<>>)

(***************************************************************************)
(* login, lines 177-208: the row each UPDATE statement produces.           *)
(***************************************************************************)
new_fail_count(user) == user.login_fail_count + 1

FailureUpdate(cur, user, pol, t) ==
    IF new_fail_count(user) >= pol.max_login_attempts
    THEN [cur EXCEPT !.login_fail_count = new_fail_count(user),
                     !.locked_until = t + pol.lockout_duration_min]
    ELSE [cur EXCEPT !.login_fail_count = new_fail_count(user)]

FailureResponse(user, pol) ==
    IF new_fail_count(user) >= pol.max_login_attempts
    THEN Http(401, "lockout", pol.lockout_duration_min, <<>>)
    ELSE Http(401, "wrong", pol.max_login_attempts - new_fail_count(user),
              <<>>)

\* The success UPDATE without login_fail_count = 0.
SuccessUpdateKeepsCount(cur, t) ==
    [cur EXCEPT !.locked_until = NULL, !.last_login_at = t]

\* The success UPDATE without locked_until = NULL.
SuccessUpdateKeepsLock(cur, t) ==
    [cur EXCEPT !.login_fail_count = 0, !.last_login_at = t]

SuccessUpdate(cur, t) ==
    [cur EXCEPT !.login_fail_count = 0, !.locked_until = NULL,
                !.last_login_at = t]

SuccessResponse(user_id, roles, t) ==
    Http(200, "success", NULL,
         <<create_access_token(user_id, roles, <<>>, t)>>)

(***************************************************************************)
(* database.get_cursor: what leaves the with block.  The body's return     *)
(* value and the cookie it set reach the client only when commit returns;  *)
(* an exception raised by commit replaces them.                            *)
(***************************************************************************)
\* The response built in the body sent even though commit raised.
DeliverBuilt(built, committed) == built

Deliver(built, committed) == IF committed THEN built ELSE Http500

\* conn.commit() applies the pending writes, conn.rollback() drops them.
Commit(store, user_id, pending) ==
    IF pending = <<>> \/ user_id \notin DOMAIN store THEN store
    ELSE [store EXCEPT ![user_id] = pending[1]]

Rollback(store, user_id, pending) == store

(***************************************************************************)
(* Requests in flight.                                                     *)
(***************************************************************************)
Idle == [pc |-> "idle", uid |-> KnownUser, pw |-> "pw1", found |-> FALSE,
         user |-> NoRow, checkedAt |-> NULL, at |-> NULL, compared |-> FALSE,
         pending |-> <<>>, built |-> Http500]

InFlight == {p \in Procs : req[p].pc # "idle"}

\* A row is locked by the transaction that has an uncommitted UPDATE on it.
RowLocked(user_id, p) ==
    \E q \in Procs \ {p} : req[q].uid = user_id /\ req[q].pending # <<>>

\* History of the completed requests: the last one, how many wrong-password
\* rejections the known account has had since its last successful login, and
\* the end of the lockout window the last lockout rejection announced.
LogEntry(r, response, committed) ==
    [uid |-> r.uid, pw |-> r.pw, found |-> r.found, user |-> r.user,
     checkedAt |-> r.checkedAt, at |-> r.at, compared |-> r.compared,
     resp |-> response, committed |-> committed]

IsWrong(e) == e.resp.kind \in {"wrong", "lockout"}

Record(e) ==
    /\ nDone' = nDone + 1
    /\ last' = e
    /\ streak' = IF e.resp.kind = "success" THEN 0
                 ELSE IF IsWrong(e) THEN streak + 1
                 ELSE streak
    /\ announced' = IF e.resp.kind = "success" THEN NULL
                    ELSE IF e.resp.kind = "lockout"
                         THEN e.at + policy.lockout_duration_min
                    ELSE announced

(***************************************************************************)
(* routes/auth_routes.py: the identity of a request.  cookie is <<>> when  *)
(* the request carries no access_token cookie, else <<token>>; the result  *)
(* of get_current_user is <<>> for None, else <<user>>.                    *)
(***************************************************************************)
\* The roles looked up in sys_user_role instead of read from the token.
get_current_user_from_store(cookie, t) ==
    IF cookie = <<>> THEN <<>>
    ELSE LET payload == decode_access_token(cookie[1], t)
         IN  IF payload = <<>> THEN <<>>
             ELSE <<[user_id |-> payload[1].sub,
                     roles |-> IF payload[1].sub \in DOMAIN userRoles
                               THEN userRoles[payload[1].sub] ELSE <<>>]>>

get_current_user(cookie, t) ==
    IF cookie = <<>> THEN <<>>
    ELSE LET payload == decode_access_token(cookie[1], t)
         IN  IF payload = <<>> THEN <<>>
             ELSE <<[user_id |-> payload[1].sub, roles |-> payload[1].roles]>>

Contains(list, x) == \E i \in DOMAIN list : list[i] = x

\* A guard either raises HTTPException(status) or returns the user.
Raised(status) == [status |-> status, user |-> <<>>]
Returned(user) == [status |-> 200, user |-> user]

require_login(cookie, t) ==
    LET user == get_current_user(cookie, t)
    IN  IF user = <<>> THEN Raised(401) ELSE Returned(user)

\* Insufficient privilege reported as not logged in.
require_admin_401(cookie, t) ==
    LET r == require_login(cookie, t)
    IN  IF r.status # 200 THEN r
        ELSE IF ~Contains(r.user[1].roles, "ADMIN") THEN Raised(401)
        ELSE r

require_admin(cookie, t) ==
    LET r == require_login(cookie, t)
    IN  IF r.status # 200 THEN r
        ELSE IF ~Contains(r.user[1].roles, "ADMIN") THEN Raised(403)
        ELSE r

NoGuard == [cookie |-> <<>>, at |-> NULL, login |-> Raised(401),
            admin |-> Raised(401)]

SessionIdle == jar = <<>> /\ held = <<>> /\ guard = NoGuard

(***************************************************************************)
(* auth.py, lines 75-109: validate_password_strength.  A password is the   *)
(* sequence of its characters; the result is the pair (is_valid, message). *)
(***************************************************************************)
\* A password as the sequence of its characters.
Chars ==
    ("" :> <<>>)
    @@ ("pw1" :> <<"p", "w", "1">>)
    @@ ("pw2" :> <<"p", "w", "2">>)
    @@ ("Ab1" :> <<"A", "b", "1">>)
    @@ ("abcdefgh" :> <<"a", "b", "c", "d", "e", "f", "g", "h">>)
    @@ ("Abcdef12" :> <<"A", "b", "c", "d", "e", "f", "1", "2">>)

Uppercase == {"A"}
Lowercase == {"a", "b", "c", "d", "e", "f", "g", "h", "p", "w"}
Digits == {"1", "2"}
special_chars == {"!", "@", "#", "$"}

isupper(c) == c \in Uppercase
islower(c) == c \in Lowercase
isdigit(c) == c \in Digits
isspecial(c) == c \in special_chars

MsgLength == "min_length"
MsgUpper == "uppercase"
MsgLower == "lowercase"
MsgNumber == "number"
MsgSpecial == "special"

\* The digit rule tested before the two letter rules.
validate_password_strength_digit_first(password, pol) ==
    IF Len(password) < pol.min_length THEN <<FALSE, MsgLength>>
    ELSE IF pol.require_number
            /\ ~\E i \in DOMAIN password : isdigit(password[i])
         THEN <<FALSE, MsgNumber>>
    ELSE IF pol.require_uppercase
            /\ ~\E i \in DOMAIN password : isupper(password[i])
         THEN <<FALSE, MsgUpper>>
    ELSE IF pol.require_lowercase
            /\ ~\E i \in DOMAIN password : islower(password[i])
         THEN <<FALSE, MsgLower>>
    ELSE IF pol.require_special
            /\ ~\E i \in DOMAIN password : isspecial(password[i])
         THEN <<FALSE, MsgSpecial>>
    ELSE <<TRUE, "">>

\* The length test passing only above min_length.
validate_password_strength_above(password, pol) ==
    IF Len(password) <= pol.min_length THEN <<FALSE, MsgLength>>
    ELSE IF pol.require_uppercase
            /\ ~\E i \in DOMAIN password : isupper(password[i])
         THEN <<FALSE, MsgUpper>>
    ELSE IF pol.require_lowercase
            /\ ~\E i \in DOMAIN password : islower(password[i])
         THEN <<FALSE, MsgLower>>
    ELSE IF pol.require_number
            /\ ~\E i \in DOMAIN password : isdigit(password[i])
         THEN <<FALSE, MsgNumber>>
    ELSE IF pol.require_special
            /\ ~\E i \in DOMAIN password : isspecial(password[i])
         THEN <<FALSE, MsgSpecial>>
    ELSE <<TRUE, "">>

validate_password_strength(password, pol) ==
    IF Len(password) < pol.min_length THEN <<FALSE, MsgLength>>
    ELSE IF pol.require_uppercase
            /\ ~\E i \in DOMAIN password : isupper(password[i])
         THEN <<FALSE, MsgUpper>>
    ELSE IF pol.require_lowercase
            /\ ~\E i \in DOMAIN password : islower(password[i])
         THEN <<FALSE, MsgLower>>
    ELSE IF pol.require_number
            /\ ~\E i \in DOMAIN password : isdigit(password[i])
         THEN <<FALSE, MsgNumber>>
    ELSE IF pol.require_special
            /\ ~\E i \in DOMAIN password : isspecial(password[i])
         THEN <<FALSE, MsgSpecial>>
    ELSE <<TRUE, "">>

(***************************************************************************)
(* routes/system_routes.py and routes/auth_routes.py: the operations that  *)
(* write sys_user, sys_user_role and sys_password_history.  Each runs in   *)
(* one get_cursor block: all of its writes are committed, or none is.      *)
(***************************************************************************)
Members == {"u1", "u2"}

\* An Optional field of a request body: <<>> is None, <<v>> is the value v.
None == <<>>
Some(v) == <<v>>

RolesOf(roles, user_id) ==
    IF user_id \in DOMAIN roles THEN roles[user_id] ELSE <<>>

\* INSERT ... ON CONFLICT DO NOTHING of each role of the list.
RECURSIVE InsertRoles(_, _)
InsertRoles(held_roles, role_ids) ==
    IF role_ids = <<>> THEN held_roles
    ELSE InsertRoles(IF Contains(held_roles, Head(role_ids)) THEN held_roles
                     ELSE Append(held_roles, Head(role_ids)),
                     Tail(role_ids))

\* SELECT ... ORDER BY created_at DESC LIMIT count: the last count entries.
Recent(history, count) ==
    { history[i] : i \in { j \in DOMAIN history : j > Len(history) - count } }

Outcome(status, detail, newDb, newRoles, newHist, hash) ==
    [status |-> status, detail |-> detail, db |-> newDb, roles |-> newRoles,
     hist |-> newHist, hash |-> hash]

\* HTTPException raised before any write.
Refuse(status, detail) ==
    Outcome(status, detail, db, userRoles, pwHistory, <<>>)

\* change_password comparing the new password with the newest entry only.
change_password_newest_only(cookie, body, t) ==
    LET auth == require_login(cookie, t)
    IN  IF auth.status # 200 THEN Refuse(auth.status, "login")
        ELSE
        LET user_id == auth.user[1].user_id
        IN  IF user_id \notin DOMAIN db THEN Refuse(404, "user")
            ELSE IF ~verify_password(body.old_password,
                                     db[user_id].password_hash)
                 THEN Refuse(400, "old_password")
            ELSE
            LET valid == validate_password_strength(Chars[body.new_password],
                                                    get_password_policy)
                history_count == get_password_policy.password_history_count
                new_hash == hash_password(body.new_password)
            IN  IF ~valid[1] THEN Refuse(400, valid[2])
                ELSE IF history_count > 0
                        /\ \E h \in Recent(pwHistory[user_id], 1) :
                              verify_password(body.new_password, h)
                     THEN Refuse(400, "history")
                ELSE Outcome(200, "",
                        [db EXCEPT ![user_id] =
                            [@ EXCEPT !.password_hash = new_hash,
                                      !.password_changed_at = t,
                                      !.updated_at = t]],
                        userRoles,
                        [pwHistory EXCEPT ![user_id] = Append(@, new_hash)],
                        <<new_hash>>)

\* change_password validating the new password before the old one.
change_password_policy_first(cookie, body, t) ==
    LET auth == require_login(cookie, t)
    IN  IF auth.status # 200 THEN Refuse(auth.status, "login")
        ELSE
        LET user_id == auth.user[1].user_id
            valid == validate_password_strength(Chars[body.new_password],
                                                get_password_policy)
            history_count == get_password_policy.password_history_count
            new_hash == hash_password(body.new_password)
        IN  IF user_id \notin DOMAIN db THEN Refuse(404, "user")
            ELSE IF ~valid[1] THEN Refuse(400, valid[2])
            ELSE IF ~verify_password(body.old_password,
                                     db[user_id].password_hash)
                 THEN Refuse(400, "old_password")
            ELSE IF history_count > 0
                    /\ \E h \in Recent(pwHistory[user_id], history_count) :
                          verify_password(body.new_password, h)
                 THEN Refuse(400, "history")
            ELSE Outcome(200, "",
                    [db EXCEPT ![user_id] =
                        [@ EXCEPT !.password_hash = new_hash,
                                  !.password_changed_at = t,
                                  !.updated_at = t]],
                    userRoles,
                    [pwHistory EXCEPT ![user_id] = Append(@, new_hash)],
                    <<new_hash>>)

\* auth_routes.py, lines 273-334.
change_password(cookie, body, t) ==
    LET auth == require_login(cookie, t)
    IN  IF auth.status # 200 THEN Refuse(auth.status, "login")
        ELSE
        LET user_id == auth.user[1].user_id
        IN  IF user_id \notin DOMAIN db THEN Refuse(404, "user")
            ELSE IF ~verify_password(body.old_password,
                                     db[user_id].password_hash)
                 THEN Refuse(400, "old_password")
            ELSE
            LET valid == validate_password_strength(Chars[body.new_password],
                                                    get_password_policy)
                history_count == get_password_policy.password_history_count
                new_hash == hash_password(body.new_password)
            IN  IF ~valid[1] THEN Refuse(400, valid[2])
                ELSE IF history_count > 0
                        /\ \E h \in Recent(pwHistory[user_id], history_count) :
                              verify_password(body.new_password, h)
                     THEN Refuse(400, "history")
                ELSE Outcome(200, "",
                        [db EXCEPT ![user_id] =
                            [@ EXCEPT !.password_hash = new_hash,
                                      !.password_changed_at = t,
                                      !.updated_at = t]],
                        userRoles,
                        [pwHistory EXCEPT ![user_id] = Append(@, new_hash)],
                        <<new_hash>>)

\* create_user without the INSERT into sys_password_history.
create_user_no_history(cookie, body, t) ==
    LET auth == require_admin(cookie, t)
        password_hash == hash_password(body.password)
        expire_date == IF body.expire_date = None
                          \/ body.expire_date[1] = NULL
                       THEN NULL ELSE body.expire_date[1]
        row == [NoRow EXCEPT !.password_hash = password_hash,
                             !.is_active = body.is_active,
                             !.expire_date = expire_date]
        roles == InsertRoles(RolesOf(userRoles, body.user_id), body.role_ids)
    IN  IF auth.status # 200 THEN Refuse(auth.status, "admin")
        ELSE IF body.user_id \notin Members THEN Refuse(400, "member")
        ELSE IF body.user_id \in DOMAIN db THEN Refuse(400, "exists")
        ELSE Outcome(201, "",
                [u \in DOMAIN db \cup {body.user_id} |->
                    IF u = body.user_id THEN row ELSE db[u]],
                [u \in DOMAIN userRoles \cup {body.user_id} |->
                    IF u = body.user_id THEN roles ELSE userRoles[u]],
                pwHistory,
                <<password_hash>>)

\* system_routes.py, lines 180-226.
create_user(cookie, body, t) ==
    LET auth == require_admin(cookie, t)
        password_hash == hash_password(body.password)
        expire_date == IF body.expire_date = None
                          \/ body.expire_date[1] = NULL
                       THEN NULL ELSE body.expire_date[1]
        row == [NoRow EXCEPT !.password_hash = password_hash,
                             !.is_active = body.is_active,
                             !.expire_date = expire_date]
        roles == InsertRoles(RolesOf(userRoles, body.user_id), body.role_ids)
    IN  IF auth.status # 200 THEN Refuse(auth.status, "admin")
        ELSE IF body.user_id \notin Members THEN Refuse(400, "member")
        ELSE IF body.user_id \in DOMAIN db THEN Refuse(400, "exists")
        ELSE Outcome(201, "",
                [u \in DOMAIN db \cup {body.user_id} |->
                    IF u = body.user_id THEN row ELSE db[u]],
                [u \in DOMAIN userRoles \cup {body.user_id} |->
                    IF u = body.user_id THEN roles ELSE userRoles[u]],
                [pwHistory EXCEPT ![body.user_id] = Append(@, password_hash)],
                <<password_hash>>)

\* update_user with the history entry of a reset left out.
update_user_no_history(cookie, user_id, body, t) ==
    LET auth == require_admin(cookie, t)
        reset == body.reset_password # None /\ body.reset_password[1] # ""
        password_hash == hash_password(body.reset_password[1])
        updates == body.is_active # None \/ body.expire_date # None \/ reset
        row == [db[user_id] EXCEPT
                   !.is_active = IF body.is_active # None
                                 THEN body.is_active[1] ELSE @,
                   !.expire_date = IF body.expire_date # None
                                   THEN body.expire_date[1] ELSE @,
                   !.password_hash = IF reset THEN password_hash ELSE @,
                   !.password_changed_at = IF reset THEN t ELSE @,
                   !.updated_at = IF updates THEN t ELSE @]
    IN  IF auth.status # 200 THEN Refuse(auth.status, "admin")
        ELSE IF user_id \notin DOMAIN db THEN Refuse(404, "user")
        ELSE Outcome(200, "",
                [db EXCEPT ![user_id] = row],
                IF body.role_ids = None THEN userRoles
                ELSE [u \in DOMAIN userRoles \cup {user_id} |->
                        IF u = user_id THEN body.role_ids[1]
                        ELSE userRoles[u]],
                pwHistory,
                IF reset THEN <<password_hash>> ELSE <<>>)

\* update_user clearing the lockout when it resets the password.
update_user_unlocks(cookie, user_id, body, t) ==
    LET auth == require_admin(cookie, t)
        reset == body.reset_password # None /\ body.reset_password[1] # ""
        password_hash == hash_password(body.reset_password[1])
        updates == body.is_active # None \/ body.expire_date # None \/ reset
        row == [db[user_id] EXCEPT
                   !.is_active = IF body.is_active # None
                                 THEN body.is_active[1] ELSE @,
                   !.expire_date = IF body.expire_date # None
                                   THEN body.expire_date[1] ELSE @,
                   !.password_hash = IF reset THEN password_hash ELSE @,
                   !.password_changed_at = IF reset THEN t ELSE @,
                   !.login_fail_count = IF reset THEN 0 ELSE @,
                   !.locked_until = IF reset THEN NULL ELSE @,
                   !.updated_at = IF updates THEN t ELSE @]
    IN  IF auth.status # 200 THEN Refuse(auth.status, "admin")
        ELSE IF user_id \notin DOMAIN db THEN Refuse(404, "user")
        ELSE Outcome(200, "",
                [db EXCEPT ![user_id] = row],
                IF body.role_ids = None THEN userRoles
                ELSE [u \in DOMAIN userRoles \cup {user_id} |->
                        IF u = user_id THEN body.role_ids[1]
                        ELSE userRoles[u]],
                IF reset
                THEN [pwHistory EXCEPT ![user_id] = Append(@, password_hash)]
                ELSE pwHistory,
                IF reset THEN <<password_hash>> ELSE <<>>)

\* system_routes.py, lines 229-291.
update_user(cookie, user_id, body, t) ==
    LET auth == require_admin(cookie, t)
        reset == body.reset_password # None /\ body.reset_password[1] # ""
        password_hash == hash_password(body.reset_password[1])
        updates == body.is_active # None \/ body.expire_date # None \/ reset
        row == [db[user_id] EXCEPT
                   !.is_active = IF body.is_active # None
                                 THEN body.is_active[1] ELSE @,
                   !.expire_date = IF body.expire_date # None
                                   THEN body.expire_date[1] ELSE @,
                   !.password_hash = IF reset THEN password_hash ELSE @,
                   !.password_changed_at = IF reset THEN t ELSE @,
                   !.updated_at = IF updates THEN t ELSE @]
    IN  IF auth.status # 200 THEN Refuse(auth.status, "admin")
        ELSE IF user_id \notin DOMAIN db THEN Refuse(404, "user")
        ELSE Outcome(200, "",
                [db EXCEPT ![user_id] = row],
                IF body.role_ids = None THEN userRoles
                ELSE [u \in DOMAIN userRoles \cup {user_id} |->
                        IF u = user_id THEN body.role_ids[1]
                        ELSE userRoles[u]],
                IF reset
                THEN [pwHistory EXCEPT ![user_id] = Append(@, password_hash)]
                ELSE pwHistory,
                IF reset THEN <<password_hash>> ELSE <<>>)

\* system_routes.py, lines 294-310.
delete_user(cookie, user_id, t) ==
    LET auth == require_admin(cookie, t)
    IN  IF auth.status # 200 THEN Refuse(auth.status, "admin")
        ELSE IF user_id \notin DOMAIN db THEN Refuse(404, "user")
        ELSE Outcome(200, "",
                [u \in DOMAIN db \ {user_id} |-> db[u]],
                userRoles, pwHistory, <<>>)

\* The last store operation answered: which one, for whom, and its answer.
OpEntry(n, op, user_id, request, result, committed) ==
    [n |-> n, op |-> op, uid |-> user_id, request |-> request,
     status |-> IF committed \/ result.status >= 400 THEN result.status
                ELSE 500,
     detail |-> IF committed \/ result.status >= 400 THEN result.detail
                ELSE "store",
     hash |-> result.hash]

NoOp == [n |-> 0, op |-> "none", uid |-> "", request |-> <<>>, status |-> 0,
         detail |-> "", hash |-> <<>>]

InitialHistory ==
    [u \in Members |-> IF u = KnownUser
                       THEN <<hash_password(InitialPassword)>> ELSE <<>>]

\* A change-password request in flight: the body, the password_hash its
\* SELECT returned, when its UPDATE ran, and its answer.
NoChange == [pc |-> "idle", body |-> [old_password |-> "", new_password |-> ""],
             seen |-> hash_password(""), at |-> NULL, status |-> 0,
             detail |-> ""]

StoreIdle ==
    /\ pwHistory = InitialHistory /\ lastOp = NoOp
    /\ chg = [p \in Procs |-> NoChange]

(***************************************************************************)
(* csrf.py: the signed, timestamped token of URLSafeTimedSerializer.  The  *)
(* token text is the value (payload and timestamp) followed by the base64  *)
(* text of its HMAC.  The 20 bytes of the digest fill 26 characters and 4  *)
(* of the 6 bits of the 27th; base64 decoding drops the other 2 bits.      *)
(***************************************************************************)
CSRF_SECRET_KEY == "csrf-secret"
CSRF_TOKEN_EXPIRE_SECONDS == 3600

\* int(time.time()) when the clock shows minute t.
Seconds(t) == t * 60

Hmac(key, value) == [key |-> key, over |-> value]

b64encode(digest) == [digest |-> digest, spare |-> 0]

b64decode(text) == text.digest

serializer_dumps(data, t) ==
    LET value == [payload |-> data, ts |-> Seconds(t)]
    IN  [blank |-> FALSE, value |-> value,
         sig |-> b64encode(Hmac(CSRF_SECRET_KEY, value))]

\* "ok", or the exception loads raises.
serializer_loads(token, max_age, t) ==
    IF b64decode(token.sig) # Hmac(CSRF_SECRET_KEY, token.value)
    THEN "BadSignature"
    ELSE IF Seconds(t) - token.value.ts > max_age THEN "SignatureExpired"
    ELSE "ok"

generate_csrf_token(random_data, t) ==
    serializer_dumps([random |-> random_data, timestamp |-> Seconds(t)], t)

\* The empty string.
EmptyToken == [blank |-> TRUE]

\* not token: None or the empty string.
Falsy(token) == token = None \/ token[1].blank

verify_csrf_token(token, t) ==
    IF Falsy(token) THEN FALSE
    ELSE serializer_loads(token[1], CSRF_TOKEN_EXPIRE_SECONDS, t) = "ok"

\* The texts that differ from a token in one character: a character of the
\* payload, of the timestamp, of the digest, or the spare bits of the last
\* character.
Alterations(token) ==
    { [token EXCEPT !.value.payload.random = "altered"],
      [token EXCEPT !.value.ts = @ + 1],
      [token EXCEPT !.sig.digest = Hmac("altered", token.value)] }
    \cup { [token EXCEPT !.sig.spare = b] : b \in 1..3 }

(***************************************************************************)
(* csrf.py, lines 83-132: CSRFMiddleware.dispatch.  A path is the sequence *)
(* of its segments: "/" is <<>>, "/api/csrf-token" is <<"api",             *)
(* "csrf-token">>, and a trailing slash is a last empty segment.           *)
(***************************************************************************)
SAFE_METHODS == {"GET", "HEAD", "OPTIONS", "TRACE"}

EXEMPT_PATHS ==
    {<<"health">>, <<"docs">>, <<"openapi.json">>, <<"redoc">>, <<>>}

\* path.startswith("/api/")
startswith_api(path) == Len(path) >= 2 /\ path[1] = "api"

CsrfTokenPath == <<"api", "csrf-token">>

CallNext == [called |-> TRUE, status |-> 0, detail |-> ""]
Forbidden(detail) == [called |-> FALSE, status |-> 403, detail |-> detail]

\* dispatch without TRACE among the safe methods.
dispatch_trace_checked(method, path, cookie_token, header_token, t) ==
    IF method \in SAFE_METHODS \ {"TRACE"} THEN CallNext
    ELSE IF path \in EXEMPT_PATHS THEN CallNext
    ELSE IF ~startswith_api(path) THEN CallNext
    ELSE IF path = CsrfTokenPath THEN CallNext
    ELSE IF Falsy(cookie_token) \/ Falsy(header_token)
         THEN Forbidden("missing")
    ELSE IF cookie_token # header_token THEN Forbidden("mismatch")
    ELSE IF ~verify_csrf_token(cookie_token, t) THEN Forbidden("invalid")
    ELSE CallNext

\* dispatch without the comparison of cookie and header.
dispatch_no_compare(method, path, cookie_token, header_token, t) ==
    IF method \in SAFE_METHODS THEN CallNext
    ELSE IF path \in EXEMPT_PATHS THEN CallNext
    ELSE IF ~startswith_api(path) THEN CallNext
    ELSE IF path = CsrfTokenPath THEN CallNext
    ELSE IF Falsy(cookie_token) \/ Falsy(header_token)
         THEN Forbidden("missing")
    ELSE IF ~verify_csrf_token(cookie_token, t) THEN Forbidden("invalid")
    ELSE CallNext

\* dispatch verifying the cookie's token before comparing it with the header.
dispatch_verify_first(method, path, cookie_token, header_token, t) ==
    IF method \in SAFE_METHODS THEN CallNext
    ELSE IF path \in EXEMPT_PATHS THEN CallNext
    ELSE IF ~startswith_api(path) THEN CallNext
    ELSE IF path = CsrfTokenPath THEN CallNext
    ELSE IF Falsy(cookie_token) \/ Falsy(header_token)
         THEN Forbidden("missing")
    ELSE IF ~verify_csrf_token(cookie_token, t) THEN Forbidden("invalid")
    ELSE IF cookie_token # header_token THEN Forbidden("mismatch")
    ELSE CallNext

\* dispatch refusing a token that the last request already used.
dispatch_single_use(method, path, cookie_token, header_token, t) ==
    IF method \in SAFE_METHODS THEN CallNext
    ELSE IF path \in EXEMPT_PATHS THEN CallNext
    ELSE IF ~startswith_api(path) THEN CallNext
    ELSE IF path = CsrfTokenPath THEN CallNext
    ELSE IF Falsy(cookie_token) \/ Falsy(header_token)
         THEN Forbidden("missing")
    ELSE IF cookie_token # header_token THEN Forbidden("mismatch")
    ELSE IF ~verify_csrf_token(cookie_token, t) THEN Forbidden("invalid")
    ELSE IF csrfLast.called /\ csrfLast.cookie = cookie_token
         THEN Forbidden("invalid")
    ELSE CallNext

dispatch(method, path, cookie_token, header_token, t) ==
    IF method \in SAFE_METHODS THEN CallNext
    ELSE IF path \in EXEMPT_PATHS THEN CallNext
    ELSE IF ~startswith_api(path) THEN CallNext
    ELSE IF path = CsrfTokenPath THEN CallNext
    ELSE IF Falsy(cookie_token) \/ Falsy(header_token)
         THEN Forbidden("missing")
    ELSE IF cookie_token # header_token THEN Forbidden("mismatch")
    ELSE IF ~verify_csrf_token(cookie_token, t) THEN Forbidden("invalid")
    ELSE CallNext

NoVerify == [token |-> None, at |-> NULL, ok |-> FALSE]

NoRequest == [n |-> 0, method |-> "", path |-> <<>>, cookie |-> None,
              header |-> None, at |-> NULL, called |-> FALSE, status |-> 0,
              detail |-> ""]

CsrfIdle == csrf = None /\ verified = NoVerify /\ csrfLast = NoRequest

NoHashCheck == [password |-> "", presented |-> "", hashed |-> sha512(""),
                again |-> sha512(""), ok |-> FALSE, n |-> 0]

NoStrength == [password |-> <<>>, pol |-> DefaultPolicy,
               result |-> <<FALSE, "">>, n |-> 0]

PureIdle == hashCheck = NoHashCheck /\ strength = NoStrength

AuxInit == SessionIdle /\ StoreIdle /\ CsrfIdle /\ PureIdle

(***************************************************************************)
(* Initial state.                                                          *)
(***************************************************************************)
StartTime == DayMinutes

NoDecode == [token |-> create_access_token("", <<>>, <<>>, 0),
             forged |-> FALSE, at |-> NULL, result |-> <<>>]

Init ==
    /\ now = StartTime
    /\ ticks = 0
    /\ policy \in Policies
    /\ \E r \in InitRows(policy, StartTime) : db = (KnownUser :> r)
    /\ db0 = db
    /\ userRoles = (KnownUser :> InitialRoles)
    /\ req = [p \in Procs |-> Idle]
    /\ nDone = 0
    /\ last = LogEntry(Idle, Http500, FALSE)
    /\ streak = 0
    /\ announced = NULL
    /\ issued = <<>>
    /\ decoded = NoDecode
    /\ AuxInit

(***************************************************************************)
(* login, lines 144-174: SELECT the account and run the state checks.  A   *)
(* rejection raises inside the with block; nothing is pending.             *)
(***************************************************************************)
LoginSelectWrites(p, user_id, password) ==
    /\ req[p].pc = "idle"
    /\ nDone + Cardinality(InFlight) < MaxRequests
    /\ LET found == user_id \in DOMAIN db
           user == IF found THEN db[user_id] ELSE NoRow
           state == AccountState(found, user, now)
           r == [Idle EXCEPT !.uid = user_id, !.pw = password,
                             !.found = found, !.user = user,
                             !.checkedAt = now]
       IN  IF state = "active"
           THEN /\ req' = [req EXCEPT ![p] = [r EXCEPT !.pc = "active"]]
                /\ UNCHANGED <<histVars, db>>
           ELSE /\ req' = [req EXCEPT ![p] = Idle]
                /\ db' = Rollback(db, user_id, <<>>)
                /\ Record(LogEntry(r, Rejection(state, user, now), FALSE))

LoginSelect(p, user_id, password) ==
    /\ LoginSelectWrites(p, user_id, password)
    /\ UNCHANGED <<now, ticks, policy, userRoles, db0, tokenVars, auxVars>>

(***************************************************************************)
(* login, lines 177-201: the password does not match.  The UPDATE waits    *)
(* for the row lock; then the handler raises the 401.                      *)
(***************************************************************************)
LoginFail(p) ==
    /\ req[p].pc = "active"
    /\ ~verify_password(req[p].pw, req[p].user.password_hash)
    /\ ~RowLocked(req[p].uid, p)
    /\ LET r == req[p]
           pol == get_password_policy
           write == IF r.uid \in DOMAIN db
                    THEN <<FailureUpdate(db[r.uid], r.user, pol, now)>>
                    ELSE <<>>
       IN  req' = [req EXCEPT ![p] =
                      [r EXCEPT !.pc = "raise", !.compared = TRUE,
                                !.at = now, !.pending = write,
                                !.built = FailureResponse(r.user, pol)]]
    /\ UNCHANGED <<now, ticks, policy, db, userRoles, db0, histVars, tokenVars, auxVars>>

(***************************************************************************)
(* login, lines 203-236: the password matches.  The UPDATE, the role       *)
(* query, the token and the cookie; a failing statement raises.            *)
(***************************************************************************)
LoginSucceed(p) ==
    /\ req[p].pc = "active"
    /\ verify_password(req[p].pw, req[p].user.password_hash)
    /\ ~RowLocked(req[p].uid, p)
    /\ LET r == req[p]
           write == IF r.uid \in DOMAIN db
                    THEN <<SuccessUpdate(db[r.uid], now)>>
                    ELSE <<>>
           roles == IF r.uid \in DOMAIN userRoles THEN userRoles[r.uid]
                    ELSE <<>>
       IN  \E executed \in BOOLEAN :
             req' = [req EXCEPT ![p] =
                 IF executed
                 THEN [r EXCEPT !.pc = "commit", !.compared = TRUE,
                                !.at = now, !.pending = write,
                                !.built = SuccessResponse(r.uid, roles, now)]
                 ELSE [r EXCEPT !.pc = "raise", !.compared = TRUE,
                                !.at = now, !.built = Http500]]
    /\ UNCHANGED <<now, ticks, policy, db, userRoles, db0, histVars, tokenVars, auxVars>>

(***************************************************************************)
(* get_cursor, lines 42-46: an exception left the with block: rollback,    *)
(* re-raise, close.                                                        *)
(***************************************************************************)
LoginRaise(p) ==
    /\ req[p].pc = "raise"
    /\ db' = Rollback(db, req[p].uid, req[p].pending)
    /\ Record(LogEntry(req[p], req[p].built, FALSE))
    /\ req' = [req EXCEPT ![p] = Idle]
    /\ UNCHANGED <<now, ticks, policy, userRoles, db0, tokenVars, auxVars>>

(***************************************************************************)
(* get_cursor, lines 41-46: the with block ended normally: commit, which   *)
(* may itself raise and is then rolled back.                               *)
(***************************************************************************)
LoginCommit(p) ==
    /\ req[p].pc = "commit"
    /\ \E committed \in BOOLEAN :
         /\ db' = IF committed THEN Commit(db, req[p].uid, req[p].pending)
                  ELSE Rollback(db, req[p].uid, req[p].pending)
         /\ Record(LogEntry(req[p], Deliver(req[p].built, committed),
                          committed))
    /\ req' = [req EXCEPT ![p] = Idle]
    /\ UNCHANGED <<now, ticks, policy, userRoles, db0, tokenVars, auxVars>>

(***************************************************************************)
(* The clock: d minutes pass, at most limit times.                         *)
(***************************************************************************)
Advance(d, limit) ==
    /\ ticks < limit
    /\ now' = now + d
    /\ ticks' = ticks + 1
    /\ UNCHANGED <<policy, db, userRoles, req, db0, histVars, tokenVars, auxVars>>

Tick == Advance(1, MaxTicks)

Login(p) ==
    \/ \E u \in UserIds, pw \in Passwords : LoginSelect(p, u, pw)
    \/ LoginFail(p)
    \/ LoginSucceed(p)
    \/ LoginRaise(p)
    \/ LoginCommit(p)

Next == (\E p \in Procs : Login(p)) \/ Tick

Spec == Init /\ [][Next]_vars

(***************************************************************************)
(* The token codec on its own: a token is issued for any subject, role     *)
(* list and time-to-live, and it, or a forgery of it, is decoded at any    *)
(* later time.                                                             *)
(***************************************************************************)
TTLs == {<<>>} \cup {<<d>> : d \in 0..MaxTtl}

IssueToken(user_id, roles, expires_delta) ==
    /\ issued = <<>>
    /\ issued' = <<[sub |-> user_id, roles |-> roles, ttl |-> expires_delta,
                    at |-> now,
                    token |-> create_access_token(user_id, roles,
                                                  expires_delta, now)]>>
    /\ UNCHANGED <<now, ticks, policy, db, userRoles, req, db0, histVars,
                   decoded, auxVars>>

\* Tokens an attacker can build from an issued one without the secret.
Forgeries(token) ==
    { [token EXCEPT !.sig = Sign("other-secret", token.claims)],
      [token EXCEPT !.claims.roles = <<"ADMIN">>],
      [token EXCEPT !.claims.exp = token.claims.exp + DayMinutes] }
    \ {token}

DecodeToken ==
    /\ issued # <<>>
    /\ \E tok \in {issued[1].token} \cup Forgeries(issued[1].token) :
         decoded' = [token |-> tok, forged |-> tok # issued[1].token,
                     at |-> now, result |-> decode_access_token(tok, now)]
    /\ UNCHANGED <<now, ticks, policy, db, userRoles, req, db0, histVars,
                   issued, auxVars>>

TokenNext ==
    \/ \E u \in UserIds, roles \in RoleLists, ttl \in TTLs :
          IssueToken(u, roles, ttl)
    \/ DecodeToken
    \/ \E d \in {1, DayMinutes} : Advance(d, MaxTokenTicks)

TokenInit ==
    /\ Init
    /\ policy = [DefaultPolicy EXCEPT !.max_login_attempts = 1,
                                      !.lockout_duration_min = 1]
    /\ db[KnownUser].is_active /\ db[KnownUser].expire_date = NULL
    /\ db[KnownUser].login_fail_count = 0

TokenSpec == TokenInit /\ [][TokenNext]_vars

(***************************************************************************)
(* The guards on their own: a guarded endpoint is called with no cookie,   *)
(* with the issued token or with a forgery of it, at any time.             *)
(***************************************************************************)
GuardCheck(cookie) ==
    /\ guard' = [cookie |-> cookie, at |-> now,
                 login |-> require_login(cookie, now),
                 admin |-> require_admin(cookie, now)]
    /\ UNCHANGED <<now, ticks, policy, db, userRoles, req, db0, histVars,
                   tokenVars, jar, held, storeVars, csrfVars, pureVars>>

PresentedCookies ==
    {<<>>} \cup
    (IF issued = <<>> THEN {}
     ELSE {<<tok>> : tok \in {issued[1].token}
                              \cup Forgeries(issued[1].token)})

GuardNext ==
    \/ \E u \in UserIds, roles \in RoleLists, ttl \in TTLs :
          IssueToken(u, roles, ttl)
    \/ \E cookie \in PresentedCookies : GuardCheck(cookie)
    \/ \E d \in {1, DayMinutes} : Advance(d, MaxTokenTicks)

GuardSpec == TokenInit /\ [][GuardNext]_vars

(***************************************************************************)
(* The store operations as requests: each is one transaction, committed    *)
(* whole or rolled back whole (database.get_cursor).                       *)
(***************************************************************************)
MaxOps == 3

Caller(cookie) ==
    LET user == get_current_user(cookie, now)
    IN  IF user = <<>> THEN "" ELSE user[1].user_id

TransactWrites(op, user_id, request, result, committed) ==
    /\ lastOp.n < MaxOps
    /\ db' = IF committed THEN result.db ELSE db
    /\ userRoles' = IF committed THEN result.roles ELSE userRoles
    /\ pwHistory' = IF committed THEN result.hist ELSE pwHistory
    /\ lastOp' = OpEntry(lastOp.n + 1, op, user_id, request, result,
                         committed)

Transact(op, user_id, request, result, committed) ==
    /\ TransactWrites(op, user_id, request, result, committed)
    /\ UNCHANGED <<now, ticks, policy, req, db0, histVars, tokenVars,
                   sessionVars, chg, csrfVars, pureVars>>

ChangePassword(cookie, body, committed) ==
    Transact("change_password", Caller(cookie), body,
             change_password(cookie, body, now), committed)

CreateUser(cookie, body, committed) ==
    Transact("create_user", body.user_id, body,
             create_user(cookie, body, now), committed)

UpdateUser(cookie, user_id, body, committed) ==
    Transact("update_user", user_id, body,
             update_user(cookie, user_id, body, now), committed)

DeleteUser(cookie, user_id, committed) ==
    Transact("delete_user", user_id, <<>>,
             delete_user(cookie, user_id, now), committed)

\* Session cookies of an administrator and of the members, issued when the
\* service started.
AdminCookie == <<create_access_token("admin", <<"ADMIN">>, <<>>, StartTime)>>
UserCookie(u) == <<create_access_token(u, <<"USER">>, <<>>, StartTime)>>

(***************************************************************************)
(* A session: the known user logs in, the browser keeps the cookie, and    *)
(* while the token is held the account is changed underneath it.           *)
(***************************************************************************)
\* The browser stores the cookie of the login response; the first token
\* received is also kept aside.
ReceiveCookie ==
    /\ last.resp.kind = "success"
    /\ jar # last.resp.cookie
    /\ jar' = last.resp.cookie
    /\ held' = IF held = <<>> THEN last.resp.cookie ELSE held
    /\ UNCHANGED <<now, ticks, policy, db, userRoles, req, db0, histVars,
                   tokenVars, guard, storeVars, csrfVars, pureVars>>

\* logout, lines 239-245: response.delete_cookie.
Logout ==
    /\ jar # <<>>
    /\ jar' = <<>>
    /\ UNCHANGED <<now, ticks, policy, db, userRoles, req, db0, histVars,
                   tokenVars, held, guard, storeVars, csrfVars, pureVars>>

MaxSessionLogins == 2
MaxSessionOps == 1

SessionBodies ==
    { [is_active |-> None, expire_date |-> None, role_ids |-> Some(<<>>),
       reset_password |-> None],
      [is_active |-> None, expire_date |-> None,
       role_ids |-> Some(<<"USER">>), reset_password |-> None],
      [is_active |-> Some(FALSE), expire_date |-> None, role_ids |-> None,
       reset_password |-> None],
      [is_active |-> None, expire_date |-> None, role_ids |-> None,
       reset_password |-> Some("pw2")],
      [is_active |-> Some(FALSE), expire_date |-> None,
       role_ids |-> Some(<<>>), reset_password |-> Some("pw2")] }

\* The holder of the token, an administrator, changes their own account.
SessionStoreOp ==
    \/ \E body \in SessionBodies : UpdateUser(held, KnownUser, body, TRUE)
    \/ DeleteUser(held, KnownUser, TRUE)
    \/ ChangePassword(held, [old_password |-> "pw1",
                             new_password |-> "Abcdef12"], TRUE)

SessionLogin ==
    \/ \E pw \in Passwords : LoginSelect("p1", KnownUser, pw)
    \/ LoginFail("p1")
    \/ LoginSucceed("p1")
    \/ LoginRaise("p1")
    \/ LoginCommit("p1")

SessionNext ==
    \/ nDone < MaxSessionLogins /\ SessionLogin
    \/ ReceiveCookie
    \/ Logout
    \/ held # <<>> /\ lastOp.n < MaxSessionOps /\ SessionStoreOp
    \/ held # <<>> /\ GuardCheck(held)
    \/ Tick

SessionSpec == TokenInit /\ [][SessionNext]_vars

(***************************************************************************)
(* The token service on its own: GET /api/csrf-token generates a token;    *)
(* the token, or a text one character away from it, is verified at any     *)
(* later time.                                                             *)
(***************************************************************************)
Randoms == {"r1", "r2"}

GenerateToken(random_data) ==
    /\ csrf = None
    /\ csrf' = Some(generate_csrf_token(random_data, now))
    /\ UNCHANGED <<now, ticks, policy, db, userRoles, req, db0, histVars,
                   tokenVars, sessionVars, storeVars, verified, csrfLast,
                   pureVars>>

VerifyToken(token) ==
    /\ verified' = [token |-> Some(token), at |-> now,
                    ok |-> verify_csrf_token(Some(token), now)]
    /\ UNCHANGED <<now, ticks, policy, db, userRoles, req, db0, histVars,
                   tokenVars, sessionVars, storeVars, csrf, csrfLast,
                   pureVars>>

\* One hour is 60 ticks of the clock.
HourMinutes == CSRF_TOKEN_EXPIRE_SECONDS \div 60

CsrfTokenNext ==
    \/ \E random_data \in Randoms : GenerateToken(random_data)
    \/ csrf # None /\ \E token \in {csrf[1]} \cup Alterations(csrf[1]) :
                          VerifyToken(token)
    \/ \E d \in {1, HourMinutes} : Advance(d, MaxTokenTicks)

CsrfTokenSpec == TokenInit /\ [][CsrfTokenNext]_vars

(***************************************************************************)
(* Requests through the middleware: dispatch answers 403 itself or calls   *)
(* the handler the route names.  The handlers of the core are the ones     *)
(* that write the stores; every other route leaves them alone.             *)
(***************************************************************************)
MaxCsrfRequests == 1

Methods == SAFE_METHODS \cup {"POST", "PUT", "DELETE"}

LoginPath == <<"api", "auth", "login">>
ChangePasswordPath == <<"api", "auth", "change-password">>
UsersPath == <<"api", "system", "users">>
UserPath == <<"api", "system", "users", KnownUser>>

Paths ==
    EXEMPT_PATHS
    \cup {CsrfTokenPath, LoginPath, ChangePasswordPath, UsersPath, UserPath}
    \cup {<<"api">>, <<"static", "app.js">>}

\* What a client can put in the cookie and in the header: nothing, the
\* empty string, the generated token, or a text one character away from it.
TokenPairs ==
    {<<None, None>>, <<Some(EmptyToken), Some(EmptyToken)>>}
    \cup (IF csrf = None THEN {}
          ELSE LET other == Some([csrf[1] EXCEPT
                                    !.sig.digest = Hmac("altered", @.over)])
                   spare == Some([csrf[1] EXCEPT !.sig.spare = 1])
               IN  {<<csrf, None>>, <<None, csrf>>, <<csrf, csrf>>,
                    <<csrf, other>>, <<other, other>>, <<spare, spare>>})

StoreWrites == <<db, userRoles, pwHistory, lastOp, req, histVars>>

ChangeBody == [old_password |-> "pw1", new_password |-> "Abcdef12"]
CreateBody == [user_id |-> "u2", password |-> "pw2", is_active |-> TRUE,
               expire_date |-> None, role_ids |-> <<"USER">>]
ResetBody == [is_active |-> None, expire_date |-> None, role_ids |-> None,
              reset_password |-> Some("pw2")]

\* call_next: the handler of the route runs.
Handle(method, path) ==
    IF method = "POST" /\ path = LoginPath
    THEN /\ \E pw \in Passwords : LoginSelectWrites("p1", KnownUser, pw)
         /\ UNCHANGED <<userRoles, pwHistory, lastOp>>
    ELSE IF method = "POST" /\ path = ChangePasswordPath
    THEN /\ TransactWrites("change_password", KnownUser, ChangeBody,
                change_password(UserCookie(KnownUser), ChangeBody, now),
                TRUE)
         /\ UNCHANGED <<req, histVars>>
    ELSE IF method = "POST" /\ path = UsersPath
    THEN /\ TransactWrites("create_user", "u2", CreateBody,
                create_user(AdminCookie, CreateBody, now), TRUE)
         /\ UNCHANGED <<req, histVars>>
    ELSE IF method = "PUT" /\ path = UserPath
    THEN /\ TransactWrites("update_user", KnownUser, ResetBody,
                update_user(AdminCookie, KnownUser, ResetBody, now), TRUE)
         /\ UNCHANGED <<req, histVars>>
    ELSE IF method = "DELETE" /\ path = UserPath
    THEN /\ TransactWrites("delete_user", KnownUser, <<>>,
                delete_user(AdminCookie, KnownUser, now), TRUE)
         /\ UNCHANGED <<req, histVars>>
    ELSE UNCHANGED StoreWrites

CsrfRequest(method, path, cookie_token, header_token) ==
    /\ LET answer == dispatch(method, path, cookie_token, header_token, now)
       IN  /\ csrfLast' = [n |-> csrfLast.n + 1, method |-> method,
                           path |-> path, cookie |-> cookie_token,
                           header |-> header_token, at |-> now,
                           called |-> answer.called,
                           status |-> answer.status,
                           detail |-> answer.detail]
           /\ IF answer.called THEN Handle(method, path)
              ELSE UNCHANGED StoreWrites
    /\ UNCHANGED <<now, ticks, policy, db0, tokenVars, sessionVars, chg,
                   csrf, verified, pureVars>>

CsrfNext ==
    \/ GenerateToken("r1")
    \/ /\ csrfLast.n < MaxCsrfRequests
       /\ \E method \in Methods, path \in Paths, tokens \in TokenPairs :
             CsrfRequest(method, path, tokens[1], tokens[2])
    \/ LoginFail("p1")
    \/ LoginSucceed("p1")
    \/ LoginRaise("p1")
    \/ LoginCommit("p1")
    \/ Advance(HourMinutes + 1, MaxTicks)

CsrfSpec == TokenInit /\ [][CsrfNext]_vars

(***************************************************************************)
(* The pure functions of auth.py on their own: each action applies one of  *)
(* them to inputs drawn from a bounded set.                                *)
(***************************************************************************)
HashAndVerify(password, presented) ==
    /\ hashCheck' = [password |-> password, presented |-> presented,
                     hashed |-> hash_password(password),
                     again |-> hash_password(password),
                     ok |-> verify_password(presented,
                                            hash_password(password)),
                     n |-> 1]
    /\ UNCHANGED <<now, ticks, policy, db, userRoles, req, db0, histVars,
                   tokenVars, sessionVars, storeVars, csrfVars, strength>>

\* Passwords that are prefixes, extensions and permutations of each other,
\* the empty one, and the salt itself.
HashInputs ==
    {"", "1", "pw", "pw1", "pw2", "1pw", "Ab1", "abcdefgh", "Abcdef12",
     PASSWORD_SALT, PASSWORD_SALT \o PASSWORD_SALT}

HashNext ==
    /\ hashCheck.n = 0
    /\ \E password \in HashInputs, presented \in HashInputs :
          HashAndVerify(password, presented)

HashSpec == TokenInit /\ [][HashNext]_vars

MaxPasswordLen == 3
MaxDefaultLen == 8

\* One character of each class, and one of none.
Alphabet == {"A", "a", "1", "!", " "}

SeqsUpTo(S, n) == UNION {[1..k -> S] : k \in 0..n}

StrengthPolicies ==
    { [DefaultPolicy EXCEPT !.min_length = m, !.require_uppercase = u,
                            !.require_lowercase = l, !.require_number = d,
                            !.require_special = x] :
        m \in 0..(MaxPasswordLen + 1), u \in BOOLEAN, l \in BOOLEAN,
        d \in BOOLEAN, x \in BOOLEAN }

Validate(password, pol) ==
    /\ strength' = [password |-> password, pol |-> pol,
                    result |-> validate_password_strength(password, pol),
                    n |-> 1]
    /\ UNCHANGED <<now, ticks, policy, db, userRoles, req, db0, histVars,
                   tokenVars, sessionVars, storeVars, csrfVars, hashCheck>>

StrengthNext ==
    /\ strength.n = 0
    /\ \E password \in SeqsUpTo(Alphabet, MaxPasswordLen),
          pol \in StrengthPolicies : Validate(password, pol)

StrengthSpec == TokenInit /\ [][StrengthNext]_vars

\* The default policy: every password of up to MaxDefaultLen characters
\* over one character of each class, and the three passwords of the examples.
DefaultInputs ==
    SeqsUpTo(Alphabet \ {" "}, MaxDefaultLen)
    \cup {Chars["abcdefgh"], Chars["Abcdef12"], Chars["Ab1"]}

DefaultStrengthNext ==
    /\ strength.n = 0
    /\ \E password \in DefaultInputs : Validate(password, DefaultPolicy)

DefaultStrengthSpec == TokenInit /\ [][DefaultStrengthNext]_vars

(***************************************************************************)
(* The password operations on their own: accounts are created, users       *)
(* change their passwords and an administrator resets them, one request    *)
(* at a time, under a policy with a short history window.                  *)
(***************************************************************************)
MaxHistoryCount == 2

PasswordPolicies ==
    { [DefaultPolicy EXCEPT !.min_length = 3, !.password_history_count = h] :
        h \in 0..MaxHistoryCount }

PasswordInit ==
    /\ now = StartTime
    /\ ticks = 0
    /\ policy \in PasswordPolicies
    /\ \E r \in InitRows(policy, StartTime) :
          /\ r.is_active /\ r.expire_date = NULL
          /\ r.login_fail_count = 0
          /\ db = (KnownUser :> r)
    /\ db0 = db
    /\ userRoles = (KnownUser :> InitialRoles)
    /\ req = [p \in Procs |-> Idle]
    /\ nDone = 0
    /\ last = LogEntry(Idle, Http500, FALSE)
    /\ streak = 0
    /\ announced = NULL
    /\ issued = <<>>
    /\ decoded = NoDecode
    /\ AuxInit

PwInputs == {"pw1", "Ab1", "Abcdef12", "abcdefgh"}

ChangeBodies ==
    [old_password : PwInputs \ {"abcdefgh"}, new_password : PwInputs]

CreateBodies ==
    [user_id : {"u1", "u2", "nobody"}, password : {"pw2"},
     is_active : {TRUE}, expire_date : {None}, role_ids : {<<"USER">>}]

ResetBodies ==
    [is_active : {None}, expire_date : {None}, role_ids : {None},
     reset_password : {None, Some(""), Some("Ab1")}]

PasswordNext ==
    /\ lastOp.n < MaxOps
    /\ \/ \E cookie \in {None, UserCookie(KnownUser)},
             body \in ChangeBodies, committed \in BOOLEAN :
             ChangePassword(cookie, body, committed)
       \/ \E cookie \in {AdminCookie, UserCookie(KnownUser)},
             body \in CreateBodies, committed \in BOOLEAN :
             CreateUser(cookie, body, committed)
       \/ \E cookie \in {AdminCookie, UserCookie(KnownUser)},
             user_id \in Members, body \in ResetBodies,
             committed \in BOOLEAN :
             UpdateUser(cookie, user_id, body, committed)

PasswordSpec == PasswordInit /\ [][PasswordNext]_vars

\* One request at a time.
SeqNext == Login("p1") \/ Tick

SeqSpec == Init /\ [][SeqNext]_vars

(***************************************************************************)
(* Lockout windows of minutes, of a day and of more than a day: the        *)
(* account was locked when the service started, or is still open, and one  *)
(* client logs in while the clock advances.                                *)
(***************************************************************************)
LockoutDurations == {1, 30, DayMinutes, DayMinutes + 30}

LockoutPolicies ==
    { [DefaultPolicy EXCEPT !.max_login_attempts = m,
                            !.lockout_duration_min = l] :
        m \in 1..MaxPolicyAttempts, l \in LockoutDurations }

LockoutInit ==
    /\ now = StartTime
    /\ ticks = 0
    /\ policy \in LockoutPolicies
    /\ \E c \in 0..policy.max_login_attempts :
          db = (KnownUser :>
                  [NoRow EXCEPT
                     !.password_hash = hash_password(InitialPassword),
                     !.is_active = TRUE,
                     !.login_fail_count = c,
                     !.locked_until =
                        IF c >= policy.max_login_attempts
                        THEN StartTime + policy.lockout_duration_min
                        ELSE NULL])
    /\ db0 = db
    /\ userRoles = (KnownUser :> InitialRoles)
    /\ req = [p \in Procs |-> Idle]
    /\ nDone = 0
    /\ last = LogEntry(Idle, Http500, FALSE)
    /\ streak = 0
    /\ announced = NULL
    /\ issued = <<>>
    /\ decoded = NoDecode
    /\ AuxInit

LockoutNext ==
    \/ Login("p1")
    \/ \E d \in {1, 29, DayMinutes} : Advance(d, MaxTicks)

LockoutSpec == LockoutInit /\ [][LockoutNext]_vars

(***************************************************************************)
(* Logins while an administrator changes the account: its roles, its       *)
(* is_active flag or its password (update_user), one request at a time.    *)
(***************************************************************************)
AdminBodies ==
    { [is_active |-> None, expire_date |-> None, role_ids |-> Some(<<>>),
       reset_password |-> None],
      [is_active |-> None, expire_date |-> None,
       role_ids |-> Some(<<"USER">>), reset_password |-> None],
      [is_active |-> Some(FALSE), expire_date |-> None, role_ids |-> None,
       reset_password |-> None],
      [is_active |-> None, expire_date |-> None, role_ids |-> None,
       reset_password |-> Some("pw1")],
      [is_active |-> None, expire_date |-> None, role_ids |-> None,
       reset_password |-> Some("pw2")] }

AdminNext ==
    \/ nDone < MaxSessionLogins /\ Login("p1")
    \/ /\ lastOp.n < MaxSessionOps
       /\ InFlight = {}
       /\ \E body \in AdminBodies :
             UpdateUser(AdminCookie, KnownUser, body, TRUE)
    \/ Tick

AdminInit == Init /\ policy.lockout_duration_min = 1

AdminSpec == AdminInit /\ [][AdminNext]_vars

(***************************************************************************)
(* One token, many requests: the token of GET /api/csrf-token is sent in   *)
(* cookie and header of successive POST /api/auth/change-password          *)
(* requests, made without a session cookie, with a user's and with an      *)
(* administrator's.                                                        *)
(***************************************************************************)
MaxReplays == 2

ReplaySessions == {None, UserCookie(KnownUser), AdminCookie}

ReplayBodies ==
    {ChangeBody, [old_password |-> "Abcdef12", new_password |-> "pw1"]}

ReplayRequest(session, body) ==
    /\ csrf # None
    /\ LET answer == dispatch("POST", ChangePasswordPath, csrf, csrf, now)
       IN  /\ csrfLast' = [n |-> csrfLast.n + 1, method |-> "POST",
                           path |-> ChangePasswordPath, cookie |-> csrf,
                           header |-> csrf, at |-> now,
                           called |-> answer.called,
                           status |-> answer.status,
                           detail |-> answer.detail]
           /\ IF answer.called
              THEN TransactWrites("change_password", Caller(session), body,
                                  change_password(session, body, now), TRUE)
              ELSE UNCHANGED <<db, userRoles, pwHistory, lastOp>>
    /\ UNCHANGED <<now, ticks, policy, req, db0, histVars, tokenVars,
                   sessionVars, chg, csrf, verified, pureVars>>

ReplayNext ==
    \/ \E random_data \in Randoms : GenerateToken(random_data)
    \/ /\ csrfLast.n < MaxReplays
       /\ \E session \in ReplaySessions, body \in ReplayBodies :
             ReplayRequest(session, body)
    \/ \E d \in {1, HourMinutes, HourMinutes + 1} : Advance(d, MaxTicks)

ReplaySpec == TokenInit /\ [][ReplayNext]_vars

(***************************************************************************)
(* change_password statement by statement, for two requests of the same    *)
(* user at once.  Each request runs in its own transaction at PostgreSQL's *)
(* default isolation level, READ COMMITTED: a SELECT sees what is          *)
(* committed when it runs and takes no lock; an UPDATE waits for the       *)
(* transaction that holds the row, then overwrites what that one wrote.    *)
(***************************************************************************)
ChangeFrame ==
    UNCHANGED <<now, ticks, policy, userRoles, req, db0, histVars, tokenVars,
                sessionVars, lastOp, csrfVars, pureVars>>

Answered(c, status, detail) ==
    [c EXCEPT !.pc = "done", !.status = status, !.detail = detail]

\* Lines 282-294: require_login passed; SELECT password_hash, and the old
\* password is compared with the hash the SELECT returned.
ChangeSelect(p, body) ==
    /\ chg[p].pc = "idle"
    /\ require_login(UserCookie(KnownUser), now).status = 200
    /\ LET c == [chg[p] EXCEPT !.body = body]
       IN  chg' = [chg EXCEPT ![p] =
              IF KnownUser \notin DOMAIN db THEN Answered(c, 404, "user")
              ELSE IF ~verify_password(body.old_password,
                                       db[KnownUser].password_hash)
                   THEN Answered(c, 400, "old_password")
              ELSE [c EXCEPT !.pc = "policy",
                             !.seen = db[KnownUser].password_hash]]
    /\ UNCHANGED <<db, pwHistory>>
    /\ ChangeFrame

\* Lines 296-316: the policy, and the SELECT of the newest history entries.
ChangeCheck(p) ==
    /\ chg[p].pc = "policy"
    /\ LET c == chg[p]
           valid == validate_password_strength(Chars[c.body.new_password],
                                               get_password_policy)
           history_count == get_password_policy.password_history_count
       IN  chg' = [chg EXCEPT ![p] =
              IF ~valid[1] THEN Answered(c, 400, valid[2])
              ELSE IF history_count > 0
                      /\ \E h \in Recent(pwHistory[KnownUser], history_count) :
                            verify_password(c.body.new_password, h)
                   THEN Answered(c, 400, "history")
              ELSE [c EXCEPT !.pc = "update"]]
    /\ UNCHANGED <<db, pwHistory>>
    /\ ChangeFrame

\* The row is held by another request's uncommitted UPDATE.
ChangeRowLocked(p) == \E q \in Procs \ {p} : chg[q].pc = "commit"

\* Lines 318-330: UPDATE sys_user and INSERT INTO sys_password_history,
\* both pending until the commit.
ChangeUpdate(p) ==
    /\ chg[p].pc = "update"
    /\ ~ChangeRowLocked(p)
    /\ chg' = [chg EXCEPT ![p] = [@ EXCEPT !.pc = "commit", !.at = now]]
    /\ UNCHANGED <<db, pwHistory>>
    /\ ChangeFrame

\* get_cursor, lines 41-46: commit, or the commit raises and is rolled back.
ChangeCommit(p) ==
    /\ chg[p].pc = "commit"
    /\ \E committed \in BOOLEAN :
         LET c == chg[p]
             new_hash == hash_password(c.body.new_password)
         IN  IF committed /\ KnownUser \in DOMAIN db
             THEN /\ db' = [db EXCEPT ![KnownUser] =
                             [@ EXCEPT !.password_hash = new_hash,
                                       !.password_changed_at = c.at,
                                       !.updated_at = c.at]]
                  /\ pwHistory' = [pwHistory EXCEPT
                                     ![KnownUser] = Append(@, new_hash)]
                  /\ chg' = [chg EXCEPT ![p] = Answered(c, 200, "")]
             ELSE /\ UNCHANGED <<db, pwHistory>>
                  /\ chg' = [chg EXCEPT ![p] = Answered(c, 500, "store")]
    /\ ChangeFrame

ConcurrentBodies ==
    [old_password : {"pw1", "Ab1"}, new_password : {"pw1", "Ab1", "Abcdef12"}]

ConcurrentNext ==
    \E p \in Procs :
        \/ \E body \in ConcurrentBodies : ChangeSelect(p, body)
        \/ ChangeCheck(p)
        \/ ChangeUpdate(p)
        \/ ChangeCommit(p)

ConcurrentSpec == PasswordInit /\ [][ConcurrentNext]_vars

(***************************************************************************)
(* Properties.                                                             *)
(***************************************************************************)
Account == db[KnownUser]
MaxAttempts == policy.max_login_attempts
LockoutMin == policy.lockout_duration_min

\* The known account started Active with no failures recorded.
StartsActive ==
    /\ db0[KnownUser].is_active
    /\ db0[KnownUser].expire_date = NULL
    /\ db0[KnownUser].login_fail_count = 0

\* Every request completed so far was a wrong-password rejection of the
\* known account, and none is in flight.
OnlyWrongSoFar == InFlight = {} /\ nDone > 0 /\ nDone = streak

\* C1: from an Active account with login_fail_count = 0, after exactly
\* max_login_attempts consecutive wrong-password attempts the stored account
\* is locked until the time of the triggering attempt plus
\* lockout_duration_min; after fewer it is not locked.
C1_LockedAfterMaxFailures ==
    (StartsActive /\ OnlyWrongSoFar) =>
        /\ streak = MaxAttempts =>
               Account.locked_until = last.at + LockoutMin
        /\ streak < MaxAttempts => Account.locked_until = NULL

\* C2: once login has locked an account, every attempt made before the
\* announced end of the lockout window is rejected as locked, the correct
\* password included: no cookie is issued and the stored account does not
\* change.
C2_LockedWindowRejects ==
    [][(nDone' = nDone + 1 /\ last'.uid = KnownUser /\ announced # NULL
            /\ last'.checkedAt < announced /\ last'.resp.kind # "error")
        => (last'.resp.kind = "locked" /\ last'.resp.cookie = <<>>
            /\ db' = db)]_vars

\* C3: a successful login sets login_fail_count to 0, locked_until to null
\* and last_login_at to the time of the login in one step of the stored
\* account, whatever the count was before; until then the stored account
\* shows none of the three changes.
C3_SuccessResetsAtomically ==
    [][\A p \in Procs :
        /\ (req[p].pc = "active" /\ req'[p].pc = "commit") => db' = db
        /\ (req[p].pc = "commit" /\ req'[p].pc = "idle"
                /\ last'.resp.kind = "success")
            => /\ db'[req[p].uid].login_fail_count = 0
               /\ db'[req[p].uid].locked_until = NULL
               /\ db'[req[p].uid].last_login_at = req[p].at
        /\ \A u \in DOMAIN db :
               db'[u].last_login_at # db[u].last_login_at
                   => /\ db'[u].login_fail_count = 0
                      /\ db'[u].locked_until = NULL]_vars

C3_Witness ==
    /\ nDone > 0
    /\ last.resp.kind = "success"
    /\ last.user.login_fail_count > 0
    /\ Account.login_fail_count = 0
    /\ Account.locked_until = NULL
    /\ Account.last_login_at = last.at

\* C4: a wrong-password attempt on an Active account has raised the stored
\* login_fail_count by exactly one by the time its rejection is returned.
C4_FailureCountPersisted ==
    (InFlight = {} /\ nDone > 0 /\ IsWrong(last)) =>
        db[last.uid].login_fail_count = last.user.login_fail_count + 1

\* C5: of consecutive wrong-password attempts on an Active account, the
\* n-th is rejected with max_login_attempts - n remaining attempts while
\* n < max_login_attempts, and as a lockout when n = max_login_attempts.
C5_RemainingDecreases ==
    (StartsActive /\ OnlyWrongSoFar) =>
        /\ streak < MaxAttempts =>
               /\ last.resp.kind = "wrong"
               /\ last.resp.remaining = MaxAttempts - streak
        /\ streak = MaxAttempts => last.resp.kind = "lockout"

IsDisabled(user) == ~user.is_active
IsExpired(user, t) == user.expire_date # NULL /\ user.expire_date < Date(t)
IsLocked(user, t) == user.locked_until # NULL /\ user.locked_until > t

\* C6: login rejects with the first of Unknown, Disabled, Expired, Locked
\* that matches the account it read, never compares the password in these
\* states, and goes on to the password only for an Active account.
C6_CheckOrder ==
    /\ nDone > 0 =>
        /\ ~last.found => last.resp.kind = "unknown"
        /\ (last.found /\ IsDisabled(last.user))
               => last.resp.kind = "disabled"
        /\ (last.found /\ ~IsDisabled(last.user)
                /\ IsExpired(last.user, last.checkedAt))
               => last.resp.kind = "expired"
        /\ (last.found /\ ~IsDisabled(last.user)
                /\ ~IsExpired(last.user, last.checkedAt)
                /\ IsLocked(last.user, last.checkedAt))
               => last.resp.kind = "locked"
        /\ last.resp.kind \in {"unknown", "disabled", "expired", "locked"}
               => ~last.compared
    /\ \A p \in InFlight :
        /\ req[p].found
        /\ ~IsDisabled(req[p].user)
        /\ ~IsExpired(req[p].user, req[p].checkedAt)
        /\ ~IsLocked(req[p].user, req[p].checkedAt)

C6_Witness ==
    /\ nDone > 0
    /\ last.resp.kind = "disabled"
    /\ IsExpired(last.user, last.checkedAt)
    /\ IsLocked(last.user, last.checkedAt)

C8_NoLostUpdate ==
    (InFlight = {} /\ Account.last_login_at = NULL) =>
        Account.login_fail_count = db0[KnownUser].login_fail_count + streak

\* C9: when the success update cannot be written or committed after the
\* password matched, the client gets neither the success response nor a
\* cookie and the stored account is as it was; a delivered success has its
\* update in the store.
C9_NoAccessWithoutDurableUpdate ==
    [][\A p \in Procs :
        (req[p].pc \in {"commit", "raise"} /\ req'[p].pc = "idle"
            /\ verify_password(req[p].pw, req[p].user.password_hash))
        => /\ (last'.resp.kind = "success" \/ last'.resp.cookie # <<>>)
                => /\ req[p].uid \in DOMAIN db'
                   /\ db'[req[p].uid] = SuccessUpdate(db[req[p].uid], req[p].at)
           /\ last'.resp.kind # "success"
                => (db' = db /\ last'.resp.cookie = <<>>)]_vars

C9_Witness ==
    /\ nDone > 0
    /\ last.compared
    /\ verify_password(last.pw, last.user.password_hash)
    /\ last.resp = Http500
    /\ db = db0

\* C10: a token issued for (u, roles, ttl) decodes to sub = u and the same
\* roles at any time before its expiry; once the ttl has elapsed, or when
\* the signature does not verify, decoding returns None.
Ttl(expires_delta) ==
    IF expires_delta = <<>> THEN JWT_EXPIRE_MINUTES ELSE expires_delta[1]

C10_TokenRoundTrip ==
    decoded.at # NULL =>
        LET rec == issued[1]
        IN  /\ decoded.forged => decoded.result = <<>>
            /\ (~decoded.forged /\ decoded.at < rec.at + Ttl(rec.ttl))
                  => /\ decoded.result # <<>>
                     /\ decoded.result[1].sub = rec.sub
                     /\ decoded.result[1].roles = rec.roles
            /\ (~decoded.forged /\ decoded.at > rec.at + Ttl(rec.ttl))
                  => decoded.result = <<>>

\* C11: a guarded request without a cookie, or with a token that does not
\* decode, gets 401 from require_login and require_admin; with a token
\* that decodes but has no ADMIN role require_admin raises 403 and
\* require_login returns the token's user; with ADMIN both return the
\* token's user_id and roles.
Decodes(cookie, t) ==
    cookie # <<>> /\ decode_access_token(cookie[1], t) # <<>>

TokenUser(cookie) ==
    <<[user_id |-> cookie[1].claims.sub, roles |-> cookie[1].claims.roles]>>

C11_GuardOutcomes ==
    guard.at # NULL =>
        /\ ~Decodes(guard.cookie, guard.at)
              => (guard.login = Raised(401) /\ guard.admin = Raised(401))
        /\ (Decodes(guard.cookie, guard.at)
                /\ ~Contains(guard.cookie[1].claims.roles, "ADMIN"))
              => /\ guard.admin = Raised(403)
                 /\ guard.login = Returned(TokenUser(guard.cookie))
        /\ (Decodes(guard.cookie, guard.at)
                /\ Contains(guard.cookie[1].claims.roles, "ADMIN"))
              => /\ guard.login = Returned(TokenUser(guard.cookie))
                 /\ guard.admin = Returned(TokenUser(guard.cookie))

C11_Witness ==
    /\ guard.at # NULL
    /\ guard.admin = Raised(403)
    /\ guard.login.status = 200
    /\ guard.login.user[1].roles = <<"USER">>

\* C12: while a session token has not expired, require_login and
\* require_admin answer for it from the claims it carries, whatever has
\* happened since to the account's roles, is_active, password or row and
\* whether or not logout was called; and every login embeds the roles the
\* store holds when it runs, so a role change shows in the next login's token.
C12_TokenOutcomeFixed ==
    /\ [](guard.cookie # <<>> /\ guard.at <= guard.cookie[1].claims.exp
            => /\ guard.login = Returned(TokenUser(guard.cookie))
               /\ guard.admin =
                    IF Contains(guard.cookie[1].claims.roles, "ADMIN")
                    THEN Returned(TokenUser(guard.cookie))
                    ELSE Raised(403))
    /\ [][\A p \in Procs :
            req[p].pc = "active" /\ req'[p].pc = "commit"
                => req'[p].built.cookie[1].claims.roles
                     = RolesOf(userRoles, req[p].uid)]_vars

\* The held token still opens an admin endpoint after logout, with the
\* account's roles removed, the account disabled and its password reset.
C12_Witness ==
    /\ held # <<>> /\ guard.cookie = held /\ guard.at > held[1].claims.iat
    /\ guard.admin.status = 200
    /\ jar = <<>>
    /\ KnownUser \in DOMAIN db
    /\ ~db[KnownUser].is_active
    /\ db[KnownUser].password_hash # hash_password(InitialPassword)
    /\ userRoles[KnownUser] = <<>>

Bypasses(method, path) ==
    \/ method \in {"GET", "HEAD", "OPTIONS", "TRACE"}
    \/ path \in {<<>>, <<"health">>, <<"docs">>, <<"openapi.json">>,
                 <<"redoc">>}
    \/ Len(path) < 2 \/ Head(path) # "api"
    \/ path = <<"api", "csrf-token">>

\* C13: a request whose method is GET, HEAD, OPTIONS or TRACE, or whose
\* path is exempt, is outside /api/ or is /api/csrf-token, reaches the
\* handler whatever its cookie and header hold; every other request is
\* checked: it reaches the handler only with a cookie and a header, and is
\* answered 403 otherwise.  POST /api/auth/login and POST
\* /api/auth/change-password are among the checked ones.
C13_BypassExactly ==
    csrfLast.n > 0 =>
        /\ Bypasses(csrfLast.method, csrfLast.path) => csrfLast.called
        /\ ~Bypasses(csrfLast.method, csrfLast.path) =>
              /\ csrfLast.called
                    => ~Falsy(csrfLast.cookie) /\ ~Falsy(csrfLast.header)
              /\ ~csrfLast.called => csrfLast.status = 403
              /\ Falsy(csrfLast.cookie) => ~csrfLast.called
        /\ ~Bypasses("POST", LoginPath)
        /\ ~Bypasses("POST", ChangePasswordPath)

\* A TRACE request to a checked path went through without any token, and
\* the same path was refused to a POST without tokens.
C13_Witness ==
    /\ csrfLast.n > 0
    /\ csrfLast.method = "TRACE" /\ csrfLast.path = ChangePasswordPath
    /\ csrfLast.cookie = None /\ csrfLast.header = None
    /\ csrfLast.called

StoresUnchanged == UNCHANGED <<db, userRoles, pwHistory, lastOp, req, histVars>>

\* C14: a request subject to the check reaches its handler exactly when the
\* cookie and the header are both present, equal, and the token verifies;
\* otherwise the middleware answers 403 and the accounts, roles, password
\* history and login records stay as they were.
C14_HandlerOnlyAfterCheck ==
    [][csrfLast' # csrfLast /\ ~Bypasses(csrfLast'.method, csrfLast'.path)
        => /\ csrfLast'.called
                <=> /\ ~Falsy(csrfLast'.cookie)
                    /\ ~Falsy(csrfLast'.header)
                    /\ csrfLast'.cookie = csrfLast'.header
                    /\ verify_csrf_token(csrfLast'.cookie, csrfLast'.at)
           /\ ~csrfLast'.called
                => csrfLast'.status = 403 /\ StoresUnchanged]_vars

\* A password reset was refused although its cookie held a fresh, validly
\* signed token: the header held another text.
C14_Witness ==
    /\ csrfLast.method = "PUT" /\ csrfLast.path = UserPath
    /\ verify_csrf_token(csrfLast.cookie, csrfLast.at)
    /\ csrfLast.header # csrfLast.cookie /\ ~Falsy(csrfLast.header)
    /\ ~csrfLast.called /\ csrfLast.status = 403
    /\ db = db0 /\ lastOp = NoOp

\* Seconds between the generation of the token and the last verification.
VerifiedAge == Seconds(verified.at) - csrf[1].value.ts

\* C15: the generated token is accepted from its generation until 3600
\* seconds have passed and rejected afterwards, and every text that differs
\* from it in one character is rejected.
C15_ValidThenExpiredAndTamperProof ==
    verified.token # None =>
        /\ verified.token = csrf
              => (verified.ok <=> VerifiedAge <= CSRF_TOKEN_EXPIRE_SECONDS)
        /\ verified.token[1] \in Alterations(csrf[1]) => ~verified.ok

Has(password, class) == \E i \in DOMAIN password : password[i] \in class

\* Whether the rule with this message is enabled and broken.
Broken(msg, password, pol) ==
    CASE msg = MsgLength -> Len(password) < pol.min_length
      [] msg = MsgUpper -> pol.require_uppercase /\ ~Has(password, Uppercase)
      [] msg = MsgLower -> pol.require_lowercase /\ ~Has(password, Lowercase)
      [] msg = MsgNumber -> pol.require_number /\ ~Has(password, Digits)
      [] msg = MsgSpecial ->
            pol.require_special /\ ~Has(password, special_chars)

RuleOrder == <<MsgLength, MsgUpper, MsgLower, MsgNumber, MsgSpecial>>

BrokenRules(password, pol) ==
    {i \in DOMAIN RuleOrder : Broken(RuleOrder[i], password, pol)}

\* C17: validate_password_strength succeeds exactly when no enabled rule is
\* broken, and otherwise fails with the message of the first broken rule in
\* the order length, uppercase, lowercase, digit, special character, and
\* with that message only.
C17_FirstBrokenRule ==
    strength.n > 0 =>
        LET broken == BrokenRules(strength.password, strength.pol)
        IN  IF broken = {} THEN strength.result = <<TRUE, "">>
            ELSE \E i \in broken :
                    /\ \A j \in broken : i <= j
                    /\ strength.result = <<FALSE, RuleOrder[i]>>

\* A password long enough that breaks the uppercase, the digit and the
\* special-character rule was refused for the uppercase rule.
C17_Witness ==
    /\ strength.n > 0
    /\ BrokenRules(strength.password, strength.pol) = {2, 4, 5}
    /\ strength.result = <<FALSE, MsgUpper>>

\* C18: under the default policy a password is accepted exactly when it has
\* at least 8 characters and holds an uppercase letter, a lowercase letter
\* and a digit: "abcdefgh" is rejected, "Abcdef12" is accepted and "Ab1" is
\* rejected as too short.
C18_DefaultPolicyAccepts ==
    /\ strength.n > 0 /\ strength.pol = DefaultPolicy =>
          /\ strength.result[1]
                <=> /\ Len(strength.password) >= 8
                    /\ Has(strength.password, Uppercase)
                    /\ Has(strength.password, Lowercase)
                    /\ Has(strength.password, Digits)
          /\ strength.password = Chars["abcdefgh"] => ~strength.result[1]
          /\ strength.password = Chars["Abcdef12"] => strength.result[1]
          /\ strength.password = Chars["Ab1"]
                => strength.result = <<FALSE, MsgLength>>
    /\ DefaultPolicy.min_length = 8
    /\ DefaultPolicy.require_uppercase /\ DefaultPolicy.require_lowercase
    /\ DefaultPolicy.require_number /\ ~DefaultPolicy.require_special

\* "Abcdef12" was validated under the default policy and accepted.
C18_Witness ==
    /\ strength.n > 0 /\ strength.pol = DefaultPolicy
    /\ strength.password = Chars["Abcdef12"]
    /\ strength.result = <<TRUE, "">>

\* The last count entries of a history.
LastEntries(history, count) ==
    {history[i] : i \in (Len(history) - count + 1)..Len(history)
                        \cap DOMAIN history}

IsPrefix(a, b) == Len(a) <= Len(b) /\ SubSeq(b, 1, Len(a)) = a

\* C19: a change-password request of a logged-in user with the correct old
\* password and a new password that satisfies the policy is rejected when
\* the hash of the new password is among the user's last
\* password_history_count history entries; otherwise, unless the store
\* fails, it succeeds, the account's password_hash becomes the new hash, and
\* the user's history gains exactly that one entry.
C19_HistoryRejectsReuse ==
    [][/\ lastOp'.n # lastOp.n
       /\ lastOp'.op = "change_password"
       /\ lastOp'.uid \in DOMAIN db
       /\ db[lastOp'.uid].password_hash
            = hash_password(lastOp'.request.old_password)
       /\ validate_password_strength(Chars[lastOp'.request.new_password],
                                     policy)[1]
       => LET u == lastOp'.uid
              h == hash_password(lastOp'.request.new_password)
          IN  IF h \in LastEntries(pwHistory[u],
                                   policy.password_history_count)
              THEN /\ lastOp'.status = 400 /\ lastOp'.detail = "history"
                   /\ UNCHANGED <<db, pwHistory>>
              ELSE IF lastOp'.status = 500 THEN UNCHANGED <<db, pwHistory>>
              ELSE /\ lastOp'.status = 200
                   /\ db'[u].password_hash = h
                   /\ pwHistory' = [pwHistory EXCEPT ![u] = Append(@, h)]]_vars

\* A change back to the password before the current one was refused: the
\* new password is not the current one, and it is within the window.
C19_Witness ==
    /\ lastOp.op = "change_password" /\ lastOp.detail = "history"
    /\ lastOp.uid = KnownUser
    /\ db[KnownUser].password_hash
         # hash_password(lastOp.request.new_password)
    /\ hash_password(lastOp.request.new_password)
         \in LastEntries(pwHistory[KnownUser], policy.password_history_count)

\* C20: in every step of create-user, change-password and reset requests,
\* each user's history keeps its entries and grows by at most one; an
\* account whose password_hash was written gains the entry with that hash
\* in the same step, and an entry is gained only with that write.
C20_HistoryAppendOnly ==
    [][\A u \in Members :
         /\ IsPrefix(pwHistory[u], pwHistory'[u])
         /\ Len(pwHistory'[u]) <= Len(pwHistory[u]) + 1
         /\ u \in DOMAIN db'
            /\ (u \notin DOMAIN db
                \/ db'[u].password_hash # db[u].password_hash)
            => pwHistory'[u] = Append(pwHistory[u], db'[u].password_hash)
         /\ pwHistory'[u] # pwHistory[u]
            => /\ u \in DOMAIN db'
               /\ db'[u].password_hash = pwHistory'[u][Len(pwHistory'[u])]
               /\ lastOp'.status \in {200, 201}
               /\ lastOp'.hash = <<db'[u].password_hash>>]_vars

\* An administrator reset the known user's password and the history holds
\* the initial hash followed by the hash of the reset.
C20_Witness ==
    /\ lastOp.op = "update_user" /\ lastOp.status = 200
    /\ lastOp.uid = KnownUser /\ lastOp.hash # <<>>
    /\ pwHistory[KnownUser]
         = <<hash_password(InitialPassword), lastOp.hash[1]>>
    /\ db[KnownUser].password_hash = lastOp.hash[1]

\* The check a change-password request fails first, in the order session,
\* old password, policy, history; "" when it passes them all.
FirstFailedCheck(uid, request) ==
    IF uid = "" THEN "login"
    ELSE IF uid \notin DOMAIN db THEN "user"
    ELSE IF db[uid].password_hash # hash_password(request.old_password)
         THEN "old_password"
    ELSE IF BrokenRules(Chars[request.new_password], policy) # {}
         THEN "policy"
    ELSE IF hash_password(request.new_password)
              \in LastEntries(pwHistory[uid], policy.password_history_count)
         THEN "history"
    ELSE ""

\* C21: a change-password request that is not answered with success leaves
\* every account's password_hash and password_changed_at and every user's
\* history as they were; the request is refused for the first check it
\* fails in the order session, old password, policy, history, and it
\* succeeds, unless the store fails, when it passes all four.
C21_RejectedChangeWritesNothing ==
    [][lastOp'.n # lastOp.n /\ lastOp'.op = "change_password"
       => LET failed == FirstFailedCheck(lastOp'.uid, lastOp'.request)
          IN  /\ lastOp'.status # 200
                 => /\ pwHistory' = pwHistory
                    /\ DOMAIN db' = DOMAIN db
                    /\ \A u \in DOMAIN db :
                          /\ db'[u].password_hash = db[u].password_hash
                          /\ db'[u].password_changed_at
                               = db[u].password_changed_at
              /\ failed = "login" => lastOp'.status = 401
              /\ failed = "user" => lastOp'.status = 404
              /\ failed = "old_password"
                    => lastOp'.status = 400 /\ lastOp'.detail = "old_password"
              /\ failed = "policy"
                    => /\ lastOp'.status = 400
                       /\ lastOp'.detail \in {MsgLength, MsgUpper, MsgLower,
                                              MsgNumber, MsgSpecial}
              /\ failed = "history"
                    => lastOp'.status = 400 /\ lastOp'.detail = "history"
              /\ failed = "" => lastOp'.status \in {200, 500}]_vars

\* A request with a wrong old password and a new password that breaks the
\* policy was refused for the old password, after an earlier change had
\* succeeded, and the account still holds the hash of that earlier change.
C21_Witness ==
    /\ lastOp.op = "change_password" /\ lastOp.n > 1
    /\ lastOp.uid = KnownUser
    /\ lastOp.status = 400 /\ lastOp.detail = "old_password"
    /\ BrokenRules(Chars[lastOp.request.new_password], policy) # {}
    /\ db[KnownUser].password_hash # hash_password(InitialPassword)
    /\ db[KnownUser].password_changed_at # NULL
    /\ Len(pwHistory[KnownUser]) = 2

\* C22: a checked request without the cookie or without the header is
\* refused as a missing token; with both present and unequal it is refused
\* as a mismatch, whether or not either of them verifies; with both present
\* and equal it reaches the handler when the token verifies and is refused
\* as invalid when it does not.
C22_StagedDoubleSubmit ==
    (csrfLast.n > 0 /\ ~Bypasses(csrfLast.method, csrfLast.path)) =>
        IF Falsy(csrfLast.cookie) \/ Falsy(csrfLast.header)
        THEN ~csrfLast.called /\ csrfLast.status = 403
             /\ csrfLast.detail = "missing"
        ELSE IF csrfLast.cookie # csrfLast.header
        THEN ~csrfLast.called /\ csrfLast.status = 403
             /\ csrfLast.detail = "mismatch"
        ELSE IF verify_csrf_token(csrfLast.cookie, csrfLast.at)
        THEN csrfLast.called
        ELSE ~csrfLast.called /\ csrfLast.status = 403
             /\ csrfLast.detail = "invalid"

\* The cookie held the generated token after its hour had passed and the
\* header another text: the request was refused as a mismatch, not as an
\* invalid token.
C22_Witness ==
    /\ csrfLast.n > 0 /\ csrfLast.method = "POST"
    /\ csrfLast.path = ChangePasswordPath
    /\ csrfLast.cookie = csrf /\ csrf # None
    /\ ~verify_csrf_token(csrfLast.cookie, csrfLast.at)
    /\ ~Falsy(csrfLast.header) /\ csrfLast.header # csrfLast.cookie
    /\ csrfLast.detail = "mismatch"

\* C23: a login rejected as locked reports the whole minutes from the time
\* of the attempt to locked_until, whatever the length of the window; the
\* attempt that triggers the lockout reports lockout_duration_min.
C23_LockedReportsRemaining ==
    nDone > 0 =>
        /\ last.resp.kind = "locked"
              => last.resp.remaining = last.user.locked_until - last.checkedAt
        /\ last.resp.kind = "lockout" => last.resp.remaining = LockoutMin

\* C24: a login builds a token, and a response carries a cookie, only for
\* an attempt that found the account, read it active, not expired and not
\* locked, and whose password matches the hash it read; the token names the
\* account and carries exactly the roles sys_user_role holds for it when
\* the token is built, and it reaches the client only as the committed
\* success response.
C24_TokenOnlyForVerifiedActive ==
    /\ [](\A p \in Procs :
            req[p].built.cookie # <<>> => req[p].pc = "commit")
    /\ [][/\ \A p \in Procs :
               (req[p].pc = "active" /\ req'[p].built.cookie # <<>>)
               => /\ req[p].found
                  /\ ~IsDisabled(req[p].user)
                  /\ ~IsExpired(req[p].user, req[p].checkedAt)
                  /\ ~IsLocked(req[p].user, req[p].checkedAt)
                  /\ req[p].user.password_hash = hash_password(req[p].pw)
                  /\ req'[p].built.cookie[1]
                       = jwt_encode([sub |-> req[p].uid,
                                     roles |-> RolesOf(userRoles, req[p].uid),
                                     exp |-> now + JWT_EXPIRE_MINUTES,
                                     iat |-> now], JWT_SECRET_KEY)
          /\ (nDone' = nDone + 1 /\ last'.resp.cookie # <<>>)
               => /\ last'.resp.kind = "success" /\ last'.committed
                  /\ \E p \in Procs : req[p].pc = "commit"
                                      /\ last'.resp = req[p].built]_vars

\* After the administrator replaced the roles of the account, a login
\* succeeded and its token carries the new roles.
C24_Witness ==
    /\ nDone > 0 /\ last.resp.kind = "success"
    /\ lastOp.op = "update_user" /\ lastOp.status = 200
    /\ userRoles[KnownUser] = <<"USER">>
    /\ last.resp.cookie[1].claims.roles = <<"USER">>
    /\ last.resp.cookie[1].claims.sub = KnownUser

\* C25: a login attempt on an account that is missing, disabled, expired or
\* locked when the attempt reads it is rejected for that state without a
\* cookie, and the step that answers it leaves every stored account as it
\* was: login_fail_count, locked_until and last_login_at included.
C25_StateRejectionWritesNothing ==
    [][(/\ nDone' = nDone + 1
        /\ \/ ~last'.found
           \/ IsDisabled(last'.user)
           \/ IsExpired(last'.user, last'.checkedAt)
           \/ IsLocked(last'.user, last'.checkedAt))
       => /\ db' = db
          /\ last'.resp.kind \in {"unknown", "disabled", "expired", "locked"}
          /\ last'.resp.cookie = <<>>
          /\ ~last'.compared]_vars

\* Two attempts on a locked account were both rejected as locked, and the
\* stored account still has the count and the window it started with.
C25_Witness ==
    /\ nDone >= 2 /\ InFlight = {}
    /\ last.resp.kind = "locked" /\ last.uid = KnownUser
    /\ IsLocked(last.user, last.checkedAt)
    /\ db = db0
    /\ Account.login_fail_count = last.user.login_fail_count
    /\ Account.locked_until = last.user.locked_until
    /\ Account.last_login_at = NULL

\* C26: an account whose lockout window has passed still holds a
\* login_fail_count at or above max_login_attempts; the first wrong
\* password after the window is answered as a lockout and locks the stored
\* account again until lockout_duration_min after that attempt, and only a
\* successful login returns the count to 0.
C26_RelockAfterWindow ==
    (/\ InFlight = {} /\ nDone > 0
     /\ last.uid = KnownUser /\ last.compared
     /\ last.user.login_fail_count >= MaxAttempts)
    => IF last.resp.kind = "success"
       THEN Account.login_fail_count = 0
       ELSE IF last.resp.kind = "error"
       THEN Account.login_fail_count = last.user.login_fail_count
       ELSE /\ last.resp.kind = "lockout"
            /\ last.resp.remaining = LockoutMin
            /\ Account.login_fail_count >= MaxAttempts
            /\ Account.locked_until = last.at + LockoutMin

\* The newest history entry of every account is its current password_hash.
NewestEntryIsCurrent ==
    \A u \in DOMAIN db :
        /\ pwHistory[u] # <<>>
        /\ pwHistory[u][Len(pwHistory[u])] = db[u].password_hash

\* A change-password step of a logged-in user whose old and new password
\* are both the current password, under a policy that consults the history.
ChangeToCurrent ==
    /\ lastOp'.n # lastOp.n /\ lastOp'.op = "change_password"
    /\ lastOp'.uid \in DOMAIN db
    /\ db[lastOp'.uid].password_hash
         = hash_password(lastOp'.request.old_password)
    /\ lastOp'.request.new_password = lastOp'.request.old_password
    /\ policy.password_history_count >= 1

\* C27 as stated: after any sequence of create-user, change-password and
\* reset requests the newest history entry of every account is its current
\* password_hash, and with password_history_count >= 1 a change to the
\* current password is always rejected as reuse.
C27_CurrentPasswordRejectedAsReuse ==
    /\ []NewestEntryIsCurrent
    /\ [][ChangeToCurrent
            => lastOp'.status = 400 /\ lastOp'.detail = "history"]_vars

\* C27, amended: the newest history entry of every account is its current
\* password_hash, and with password_history_count >= 1 a change to the
\* current password is always rejected and writes nothing: as reuse when
\* the password satisfies the policy, and with the message of the rule it
\* breaks when it does not.
C27_CurrentPasswordRejected ==
    /\ []NewestEntryIsCurrent
    /\ [][ChangeToCurrent
            => /\ lastOp'.status = 400
               /\ UNCHANGED <<db, pwHistory>>
               /\ IF BrokenRules(Chars[lastOp'.request.new_password],
                                 policy) = {}
                  THEN lastOp'.detail = "history"
                  ELSE \E i \in BrokenRules(
                                  Chars[lastOp'.request.new_password],
                                  policy) :
                          lastOp'.detail = RuleOrder[i]]_vars

\* After a reset and a change of password, a change to the password then
\* current was refused as reuse.
C27_Witness ==
    /\ lastOp.n = 3 /\ lastOp.op = "change_password"
    /\ lastOp.uid = KnownUser
    /\ lastOp.status = 400 /\ lastOp.detail = "history"
    /\ lastOp.request.new_password = lastOp.request.old_password
    /\ db[KnownUser].password_hash
         = hash_password(lastOp.request.new_password)
    /\ Len(pwHistory[KnownUser]) = 3
    /\ NewestEntryIsCurrent

\* An update_user step of an administrator that resets the password of an
\* existing account.
ResetStep ==
    /\ lastOp'.n # lastOp.n /\ lastOp'.op = "update_user"
    /\ lastOp'.uid \in DOMAIN db
    /\ lastOp'.request.reset_password # None
    /\ lastOp'.request.reset_password[1] # ""

\* C28: a password reset by an administrator succeeds whatever the new
\* password is: it need not satisfy the policy and may equal a recent
\* history entry.  The step stores the hash of the new password and appends
\* it to the history, and leaves login_fail_count, locked_until and
\* last_login_at as they were: an account locked before the reset is locked
\* after it, until the same locked_until.
C28_ResetKeepsLockSkipsPolicy ==
    [][ResetStep
        => LET u == lastOp'.uid
               h == hash_password(lastOp'.request.reset_password[1])
           IN  /\ lastOp'.status = 200
               /\ db'[u].password_hash = h
               /\ pwHistory'[u] = Append(pwHistory[u], h)
               /\ db'[u].login_fail_count = db[u].login_fail_count
               /\ db'[u].locked_until = db[u].locked_until
               /\ db'[u].last_login_at = db[u].last_login_at
               /\ IsLocked(db[u], now) => IsLocked(db'[u], now)]_vars

\* The password of a locked account was reset to a password that breaks
\* the policy and equals the newest history entry; a login with the new
\* password, made after the reset, was rejected as locked.
C28_Witness ==
    /\ lastOp.op = "update_user" /\ lastOp.status = 200
    /\ lastOp.request.reset_password = Some("pw1")
    /\ BrokenRules(Chars["pw1"], policy) # {}
    /\ pwHistory[KnownUser] = <<hash_password("pw1"), hash_password("pw1")>>
    /\ nDone > 0 /\ last.resp.kind = "locked"
    /\ last.user.password_changed_at # NULL
    /\ last.user.password_hash = hash_password(last.pw)
    /\ Account.login_fail_count >= MaxAttempts
    /\ Account.locked_until = db0[KnownUser].locked_until

\* C29: a request that carries the generated token in cookie and header
\* while the token is at most 3600 seconds old reaches its handler,
\* however many requests carried the token before and whatever session
\* cookie, if any, comes with it; and no request changes the token the
\* service accepts.
C29_TokenReusableByAnyone ==
    [][(/\ csrfLast'.n # csrfLast.n
        /\ csrf # None
        /\ csrfLast'.cookie = csrf /\ csrfLast'.header = csrf
        /\ Seconds(now) - csrf[1].value.ts <= CSRF_TOKEN_EXPIRE_SECONDS)
       => /\ csrfLast'.called
          /\ csrf' = csrf
          /\ lastOp'.n = lastOp.n + 1]_vars

\* The same token carried two requests to the handler: the first changed
\* the user's password under the user's session, the second came without a
\* session cookie and was turned away by require_login, not by the
\* middleware.
C29_Witness ==
    /\ csrfLast.n = 2 /\ csrfLast.called /\ csrfLast.cookie = csrf
    /\ lastOp.n = 2 /\ lastOp.uid = "" /\ lastOp.status = 401
    /\ KnownUser \in DOMAIN db
    /\ db[KnownUser].password_hash = hash_password("Abcdef12")

\* C30: a change-password request succeeds only while the old password it
\* presented is still the account's current password: of two requests of
\* one user that both presented the password current when they started, at
\* most one succeeds.
C30_NoRotationOnStaleOldPassword ==
    [][\A p \in Procs :
         (chg[p].pc = "commit" /\ chg'[p].pc = "done"
             /\ chg'[p].status = 200)
         => /\ db[KnownUser].password_hash
                 = hash_password(chg[p].body.old_password)
            /\ \A q \in Procs \ {p} :
                  ~(chg[q].pc = "done" /\ chg[q].status = 200
                      /\ chg[q].seen = chg[p].seen)]_vars
====
